---- MODULE Spec2Model ----
(***************************************************************************)
(* Model of the Move compiler front end of the repository:                 *)
(*   - the pipeline driver (command_line/compiler.rs): SteppedCompiler,    *)
(*     run_impl, run, construct_pre_compiled_lib, into_compiled_units;     *)
(*   - the expansion pass (expansion/translate.rs): use declarations,      *)
(*     alias scopes, name access, literal values.                          *)
(* SpecDriver explores the driver, SpecExp the translation of one module.  *)
(***************************************************************************)
EXTENDS Integers, Sequences, FiniteSets, TLC

\* ------------------------------------------------------------------------
\* Passes (compiler.rs:76-84)
\* ------------------------------------------------------------------------
EMPTY_COMPILER == 0
PASS_PARSER == 1
PASS_EXPANSION == 2
PASS_NAMING == 3
PASS_TYPING == 4
PASS_HLIR == 5
PASS_CFGIR == 6
PASS_COMPILATION == 7

\* Severity (diagnostics/codes.rs, not part of the sources at hand): the
\* thresholds are compared with >=, Bug is the internal-invariant severity
\* that only Bug diagnostics reach.
Warning == 0
NonblockingError == 1
BlockingError == 2
Bug == 3

Severity == Warning..Bug

\* ------------------------------------------------------------------------
\* Bounds
\* ------------------------------------------------------------------------
\* diagnostics one opaque pass may add to the ledger
MaxPassDiags == 1
\* diagnostics in the ledger of the handle the run starts from
MaxInitDiags == 1
\* numeric literals in the parsed program
MaxLits == 1
\* length of the ledger beyond which the opaque passes add nothing more
MaxLedger == 3

\* PassResult: the variant (its equivalent_pass), the literals a parser AST
\* holds, and the warnings a Compilation result carries
PassResult(k, lits, ws) == [pass |-> k, lits |-> lits, warnings |-> ws]

\* Option<PassResult>::None
NoProgram == PassResult(EMPTY_COMPILER, <<>>, <<>>)

VARIABLES
    \* ---- pipeline driver ----
    mode,       \* "stepped" (SteppedCompiler::run) or "precompiled" (construct_pre_compiled_lib)
    hP,         \* the const parameter P of the handle SteppedCompiler<P>
    program,    \* the handle's program: Option<PassResult>, NoProgram for None
    until,      \* TARGET / until of the run in progress
    pc,         \* "handle", "run", "ok", "err", "panic", "units"
    diags,      \* compilation_env's diagnostic ledger, in insertion order
    failure,    \* the Diagnostics of an Err result
    warnings,   \* the warnings returned by into_compiled_units
    live,       \* stages whose PassResult is currently owned by the driver
    executed,   \* history: passes executed, in order
    gates,      \* history: severity gates evaluated, in order
    takes,      \* history: take_final_warning_diags calls
    snapshots,  \* the slots filled by save_result, in call order
    emitted,    \* history: every diagnostic ever added to the ledger, in order
    start,      \* history: the handle (P, program, ledger) the run started from
    numSev,     \* the severity codes.rs gives Syntax::InvalidNumber
    \* ---- expansion of one module (translate.rs: module_) ----
    epc,                    \* position in module_: "idle", "members", "body", "closed", "panic"
    is_source_definition,   \* Context.is_source_definition
    new_scope,              \* module_'s AliasMapBuilder
    use_funs,               \* the implicit table of module_'s UseFunsBuilder / E::UseFuns
    aliases,                \* Context.aliases
    old_aliases,            \* the OldAliasMap add_and_shadow_all returned
    uses,                   \* history: the use declarations translated, in order
    accesses,               \* history: the name access chains translated, in order
    resolved,               \* history: what each name access chain resolved to
    scope,                  \* the translator that opened the scope: "module" (module_) or "spec" (spec)
    functions,              \* the functions the module declares: name, and whether function_ has run
    \* ---- warning filters of one module (translate.rs: module_, function_) ----
    attributes,             \* the module's flattened attributes: its allow attribute
    package_config,         \* env.package_config(package): is_dependency, warning_filter
    warning_filter_scopes,  \* CompilationEnv's stack of active warning filter scopes
    warning_filter,         \* the warning_filter stored in the E::ModuleDefinition
    \* ---- expansion of a program (translate.rs: program) ----
    ppc,                    \* position in program: "sources", "libs", "merge", "scripts", "done", "panic"
    sources_shadow_deps,    \* env.flags().sources_shadow_deps()
    source_definitions,     \* P::Program.source_definitions
    lib_definitions,        \* P::Program.lib_definitions
    next_def,               \* the index of the next definition of the running loop
    source_module_map,      \* program's source_module_map, E::Program.modules in the end
    lib_module_map,         \* program's lib_module_map
    scripts,                \* program's scripts vector
    keyed,                  \* E::Program.scripts
    \* ---- named addresses (translate.rs: compute_address_conflicts, address_) ----
    apc,                    \* "idle", "start", "context", "mapped", "resolved"
    named_address_maps,     \* prog.named_address_maps.all()
    pre_compiled_maps,      \* pre_compiled_lib's parser.named_address_maps.all(), <<>> for None
    address_conflicts,      \* Context.address_conflicts
    named_address_mapping,  \* Context.named_address_mapping: an index of named_address_maps, 0 for None
    address,                \* the Address the last call of address returned
    \* ---- one literal (translate.rs: exp_, value) ----
    vpc,                    \* "idle", "value", "done"
    pvalue,                 \* the P::Value_::Num of the expression: its suffix and its value
    evalue,                 \* what value returned: Some(E::Value) or None
    eexp,                   \* the E::Exp_ exp_ made of it: "Value" or "UnresolvedError"
    \* ---- interface files (compiler.rs: generate_interface_files) ----
    separate_by_hash,          \* the argument separate_by_hash
    module_to_named_address,   \* the argument module_to_named_address
    mv_files,                  \* the compiled modules found, in order
    disk,                      \* the file at each interface path: its contents, or absent
    worker,                    \* per compilation: the file it is at and its next step
    tmp,                       \* per compilation: the contents of its NamedTempFile, if any
    result,                    \* per compilation: the paths pushed to result
    renames,                   \* history: per file, the compilations that renamed onto it, in order
    passed,                    \* history: per file, the compilations whose second check saw no file
    discarded,                 \* history: per file, the compilations that dropped a written temporary
    \* ---- the module-member index (translate.rs: program, all_module_members) ----
    mpc,                       \* "idle", "source", "lib", "pre_compiled", "translate"
    pre_compiled_definitions,  \* pre_compiled_lib's parser.source_definitions, <<>> for None
    members,                   \* program's members, then Context.module_members
    resolved_use,              \* what the last use declaration translated found in the index
    \* ---- the translators in progress (translate.rs: module_ down to sequence) ----
    wpc,                       \* "idle", "walk", "ice_aliases" or "ice_filters" after a panic
    frames,                    \* the translators entered and not left: the old_aliases each holds
    in_spec_context,           \* Context.in_spec_context
    entered,                   \* history: how many translators were entered
    last_left,                 \* history: the translator left last, the state around it
    \* ---- the unbound names of a spec block (translate.rs: bind_exp_spec) ----
    upc,                       \* "idle", "spec", "bound"
    espec_block,               \* the members of the E::SpecBlock spec() returned
    unbound_names,             \* the set bind_exp_spec returns
    \* ---- the attributes of one declaration (translate.rs: flatten_attributes) ----
    atpc,                      \* "idle", "flatten", "done"
    attr_position,             \* the AttributePosition of the declaration
    pattributes,               \* the P::Attribute of the declaration, in order
    all_attrs,                 \* flatten_attributes: the attributes attribute() returned
    attr_map,                  \* the E::Attributes flatten_attributes returns
    \* ---- one expression (translate.rs: exp_, type_) ----
    fpc,                       \* "idle", "exp", "done"
    pexp,                      \* the P::Exp handed to exp_
    dot_call,                  \* whether the package's edition supports method syntax
    eexp_,                     \* the E::Exp exp_ returned
    translated,                \* history: the nodes exp_ and type_ were called on, and as what
    \* ---- the members of one module or script (translate.rs: module_, script_) ----
    dpc,                       \* "idle", "aliases", "members", "done", "panic"
    dkind,                     \* "module_" or "script_"
    pmembers,                  \* the functions, constants and structs of the definition, in order
    dnext,                     \* the member aliases_from_member or the translation is at
    member_map,                \* the functions, constants and structs maps of the definition
    dropped,                   \* history: the members their map refused, and has_errors() then
    \* ---- stopping and resuming (compiler.rs: into_ast, at_<S>, move_check_for_errors) ----
    caller,                    \* "api" (any use of the handle) or "move_check_for_errors"
    testing,                   \* compilation_env.flags().is_testing()
    ast,                       \* the AST into_ast returned and at_<S> has not taken back yet
    extracted,                 \* history: the handle and its environment at the last into_ast
    plans                      \* history: the calls of construct_test_plan

driverVars == <<mode, hP, program, until, pc, diags, failure, warnings, live,
                executed, gates, takes, snapshots, emitted, start, numSev>>

filterVars == <<attributes, package_config, warning_filter_scopes, warning_filter>>

programVars == <<ppc, sources_shadow_deps, source_definitions, lib_definitions, next_def,
                 source_module_map, lib_module_map, scripts, keyed>>

addressVars == <<apc, named_address_maps, pre_compiled_maps, address_conflicts,
                 named_address_mapping, address>>

valueVars == <<vpc, pvalue, evalue, eexp>>

interfaceVars == <<separate_by_hash, module_to_named_address, mv_files, disk, worker, tmp,
                   result, renames, passed, discarded>>

memberVars == <<mpc, pre_compiled_definitions, members, resolved_use>>

walkVars == <<wpc, frames, in_spec_context, entered, last_left>>

unboundVars == <<upc, espec_block, unbound_names>>

attributeVars == <<atpc, attr_position, pattributes, all_attrs, attr_map>>

formVars == <<fpc, pexp, dot_call, eexp_, translated>>

declVars == <<dpc, dkind, pmembers, dnext, member_map, dropped>>

resumeVars == <<caller, testing, ast, extracted, plans>>

laterVars == <<memberVars, walkVars, unboundVars, attributeVars, formVars, declVars,
               resumeVars>>

restVars == <<programVars, addressVars, valueVars, interfaceVars, laterVars>>

expVars == <<epc, is_source_definition, new_scope, use_funs, aliases,
             old_aliases, uses, accesses, resolved, scope, functions, filterVars, restVars>>

vars == <<driverVars, expVars>>

\* ------------------------------------------------------------------------
\* Helpers over sequences
\* ------------------------------------------------------------------------
Range(s) == {s[i] : i \in 1..Len(s)}

SeqsUpTo(S, n) == UNION {[1..k -> S] : k \in 0..n}

RECURSIVE FilterSeq(_, _)
FilterSeq(s, keep) ==
    IF s = <<>> THEN <<>>
    ELSE IF keep[Head(s)] THEN <<Head(s)>> \o FilterSeq(Tail(s), keep)
         ELSE FilterSeq(Tail(s), keep)

\* ------------------------------------------------------------------------
\* Literals (parser AST) and expansion's value()
\* ------------------------------------------------------------------------
\* the value of a literal, exactly: 2^exp - minus, minus 0 or 1. The values
\* of the model are the largest value of every width and the value after it.
Num(exp, minus) == [exp |-> exp, minus |-> minus]

\* 2^v.exp - v.minus < 2^n
Below(v, n) == v.exp < n \/ (v.exp = n /\ v.minus = 1)

\* a u8-suffixed literal "<v>u8"; the values straddle the u8 maximum
U8Values == {Num(8, 1), Num(8, 0)}
Literals == [suffix : {"u8"}, v : U8Values]

\* parse_u16 .. parse_u256: Err exactly when the value does not fit in n bits
parse_uN(n, v) == IF Below(v, n) THEN [ok |-> TRUE, u |-> v] ELSE [ok |-> FALSE, u |-> Num(0, 1)]

\* parse_u8: Err exactly when the value does not fit in 8 bits
parse_u8(v) == parse_uN(8, v)

\* Syntax::InvalidNumber ("invalid number literal") is a user error: its
\* severity is set in diagnostics/codes.rs and is below Bug
ErrorSeverities == {NonblockingError, BlockingError}

\* diag!(Syntax::InvalidNumber, (loc, "Invalid number literal. ..."))
num_too_big_error(sev, pass) ==
    [sev |-> sev, pass |-> pass, code |-> "InvalidNumber", loc |-> 0, loc2 |-> 0, name |-> ""]

\* the E::Value_ variant of a literal with the suffix
Variant(suffix) ==
    CASE suffix = "u8" -> "U8" [] suffix = "u16" -> "U16" [] suffix = "u32" -> "U32"
      [] suffix = "u64" -> "U64" [] suffix = "u128" -> "U128" [] suffix = "u256" -> "U256"
      [] OTHER -> "InferredNum"

NoValue == [variant |-> "None", u |-> Num(0, 1)]

value_AllU256(lit, sev, pass) ==
    LET r == parse_uN(256, lit.v) IN
    IF r.ok THEN [some |-> TRUE, diag |-> <<>>, value |-> [variant |-> Variant(lit.suffix), u |-> r.u]]
    ELSE [some |-> FALSE, diag |-> <<num_too_big_error(sev, pass)>>, value |-> NoValue]

\* value(): the arms of PV::Num, by the suffix the literal ends with, the
\* unsuffixed literal parsed as a u256
value(lit, sev, pass) ==
    LET r == CASE lit.suffix = "u8" -> parse_u8(lit.v)
               [] lit.suffix = "u16" -> parse_uN(16, lit.v)
               [] lit.suffix = "u32" -> parse_uN(32, lit.v)
               [] lit.suffix = "u64" -> parse_uN(64, lit.v)
               [] lit.suffix = "u128" -> parse_uN(128, lit.v)
               [] lit.suffix = "u256" -> parse_uN(256, lit.v)
               [] OTHER -> parse_uN(256, lit.v)
    IN
    IF r.ok THEN [some |-> TRUE, diag |-> <<>>, value |-> [variant |-> Variant(lit.suffix), u |-> r.u]]
    ELSE [some |-> FALSE, diag |-> <<num_too_big_error(sev, pass)>>, value |-> NoValue]

\* the literals of a program, translated in order
RECURSIVE values(_, _, _)
values(lits, sev, pass) ==
    IF lits = <<>> THEN <<>>
    ELSE value(Head(lits), sev, pass).diag \o values(Tail(lits), sev, pass)

\* ------------------------------------------------------------------------
\* Diagnostics & severity ledger (shared::CompilationEnv)
\* ------------------------------------------------------------------------
\* a diagnostic: severity, the pass that added it, its code, the primary and
\* the secondary location, and the name its message cites
Diag(sev, pass) ==
    [sev |-> sev, pass |-> pass, code |-> "other", loc |-> 0, loc2 |-> 0, name |-> ""]

Min(a, b) == IF a < b THEN a ELSE b

\* what an opaque pass may add to a ledger that has room for `room` more
PassDiags(pass, room) ==
    SeqsUpTo({Diag(s, pass) : s \in Severity}, Min(MaxPassDiags, IF room > 0 THEN room ELSE 0))

add_diags(ledger, ds) == ledger \o ds

\* Err(all diagnostics) iff some diagnostic is at or above the threshold;
\* the check itself leaves the ledger as it is
check_diags_at_or_above_severity(ledger, threshold) ==
    IF \E i \in 1..Len(ledger) : ledger[i].sev >= threshold
    THEN [err |-> TRUE, diags |-> ledger]
    ELSE [err |-> FALSE, diags |-> <<>>]

\* takes and clears the diagnostics at warning level but below blocking
take_final_warning_diags(ledger) ==
    [taken |-> FilterSeq(ledger, [d \in Range(ledger) |-> d.sev < BlockingError]),
     rest  |-> FilterSeq(ledger, [d \in Range(ledger) |-> ~(d.sev < BlockingError)])]

\* ------------------------------------------------------------------------
\* Expansion: names, module identities, the module-member index
\* ------------------------------------------------------------------------
\* use declarations one module may hold
MaxUses == 2
\* name access chains translated inside one module
MaxAccesses == 1
\* functions one module declares
MaxFunctions == 1

NoName == ""
NoLoc == 0

\* ModuleName::SELF_NAME
SELF_NAME == "Self"

ModuleIdent_(a, m) == [address |-> a, module |-> m]
NoIdent == ModuleIdent_(0, NoName)

\* the module being translated
current_module == ModuleIdent_(1, "C")

\* Context.module_members: two modules of the same name at two addresses,
\* each with a function f and a struct S; 0x1::N is not in the index
module_members ==
    [mi \in {ModuleIdent_(1, "M"), ModuleIdent_(2, "M")} |->
        [f |-> "Function", S |-> "Struct"]]

\* P::UseDecl with one module use, `use <ident>` / `use <ident> as <alias>`
\* (kind Module) or `use <ident>::{<member> as <alias>}` (kind Members);
\* NoName for an absent alias
UseDecl(kind, mident, member, alias) ==
    [kind |-> kind, ident |-> mident, member |-> member, alias |-> alias]

UseDecls ==
    {UseDecl("Module", ModuleIdent_(1, "M"), NoName, NoName),
     UseDecl("Module", ModuleIdent_(2, "M"), NoName, NoName),
     UseDecl("Module", ModuleIdent_(1, "M"), NoName, "A"),
     UseDecl("Module", ModuleIdent_(1, "N"), NoName, NoName),
     UseDecl("Module", ModuleIdent_(1, "M"), NoName, SELF_NAME),
     UseDecl("Members", ModuleIdent_(1, "M"), "f", NoName),
     UseDecl("Members", ModuleIdent_(1, "M"), "f", "A"),
     UseDecl("Members", ModuleIdent_(2, "M"), "f", "A"),
     UseDecl("Members", ModuleIdent_(1, "M"), "S", NoName),
     UseDecl("Members", ModuleIdent_(1, "M"), "S", "A"),
     UseDecl("Members", ModuleIdent_(1, "M"), SELF_NAME, NoName),
     UseDecl("Members", ModuleIdent_(1, "M"), "zz", NoName),
     UseDecl("Members", ModuleIdent_(1, "M"), "S", "f")}

\* P::NameAccessChain_::One(n1) and Two(Name(n1), n2), with the Access
NameAccessChain(access, chain, n1, n2) ==
    [access |-> access, chain |-> chain, n1 |-> n1, n2 |-> n2]

NameAccessChains ==
    {NameAccessChain(ac, "One", n, NoName) :
        ac \in {"Type", "ApplyNamed", "ApplyPositional", "Term"}, n \in {"A", "f"}}
    \cup {NameAccessChain("Term", "Two", n, "f") : n \in {"A", "M"}}

\* diag!(code, (loc, msg), (loc2, msg2)) of the expansion pass
diag(sev, code, loc, loc2, name) ==
    [sev |-> sev, pass |-> PASS_EXPANSION, code |-> code, loc |-> loc, loc2 |-> loc2,
     name |-> name]

\* s.starts_with('_'), over the names of the model
starts_with_underscore(n) == n \in {"_g"}

\* s.starts_with(|c| c.is_ascii_uppercase()), over the names of the model
is_valid_struct_constant_or_schema_name(n) == n \in {"A", "S", "M", "N", "C", SELF_NAME}

\* BuiltinFunction_::all_names() and BuiltinTypeName_::all_names(): none of
\* the names of the model is one of them
check_restricted_names(n, loc) == <<>>

restricted_name_error(loc, restricted) ==
    diag(NonblockingError, "ReservedName", loc, NoLoc, restricted)

\* Self is restricted in every case (vector is not a name of the model);
\* <<>> stands for Ok(()), the diagnostic for Err(())
check_restricted_name_all_cases(case, n, loc) ==
    IF n = SELF_NAME THEN <<restricted_name_error(loc, n)>> ELSE <<>>

check_valid_module_member_name_impl(member, n, loc) ==
    IF member = "Function" /\ starts_with_underscore(n)
    THEN <<diag(NonblockingError, "InvalidName", loc, NoLoc, n)>>
    ELSE IF member # "Function" /\ ~is_valid_struct_constant_or_schema_name(n)
    THEN <<diag(NonblockingError, "InvalidName", loc, NoLoc, n)>>
    ELSE IF check_restricted_names(n, loc) # <<>> THEN check_restricted_names(n, loc)
    ELSE check_restricted_name_all_cases("ModuleMemberAlias", n, loc)

check_valid_module_member_alias(member, alias, loc) ==
    check_valid_module_member_name_impl(member, alias, loc)

\* ------------------------------------------------------------------------
\* Alias tables (expansion/aliases.rs): AliasMapBuilder and AliasMap
\* ------------------------------------------------------------------------
Bound(tbl, n) == \E e \in tbl : e.alias = n

Get(tbl, n) == CHOOSE e \in tbl : e.alias = n

\* the Name (symbol and location) an alias was declared with
AliasName(e) == [alias |-> e.alias, loc |-> e.loc]

AliasMapBuilder_new == [modules |-> {}, members |-> {}]

\* a binding is added unless the name is bound in this builder already;
\* then the builder keeps the first binding and returns its location
add_alias(tbl, e) ==
    IF Bound(tbl, e.alias)
    THEN [tbl |-> tbl, err |-> TRUE, old_loc |-> Get(tbl, e.alias).loc]
    ELSE [tbl |-> tbl \cup {e}, err |-> FALSE, old_loc |-> NoLoc]

ModuleAlias(alias, loc, mident, implicit) ==
    [alias |-> alias, loc |-> loc, ident |-> mident, member |-> NoName, implicit |-> implicit]

MemberAlias(alias, loc, mident, member, implicit) ==
    [alias |-> alias, loc |-> loc, ident |-> mident, member |-> member, implicit |-> implicit]

add_module_alias(acc, alias, loc, mident) ==
    LET r == add_alias(acc.modules, ModuleAlias(alias, loc, mident, FALSE)) IN
    [acc |-> [acc EXCEPT !.modules = r.tbl], err |-> r.err, old_loc |-> r.old_loc]

add_implicit_module_alias(acc, alias, loc, mident) ==
    LET r == add_alias(acc.modules, ModuleAlias(alias, loc, mident, TRUE)) IN
    [acc |-> [acc EXCEPT !.modules = r.tbl], err |-> r.err, old_loc |-> r.old_loc]

add_member_alias(acc, alias, loc, mident, member) ==
    LET r == add_alias(acc.members, MemberAlias(alias, loc, mident, member, FALSE)) IN
    [acc |-> [acc EXCEPT !.members = r.tbl], err |-> r.err, old_loc |-> r.old_loc]

add_implicit_member_alias(acc, alias, loc, mident, member) ==
    LET r == add_alias(acc.members, MemberAlias(alias, loc, mident, member, TRUE)) IN
    [acc |-> [acc EXCEPT !.members = r.tbl], err |-> r.err, old_loc |-> r.old_loc]

AliasMap_new ==
    [modules |-> {}, members |-> {}, unused_modules |-> {}, unused_members |-> {}]

\* the bindings of the new scope over those of the outer one
Shadow(outer, inner) == {e \in outer : ~Bound(inner, e.alias)} \cup inner

\* pushes the scope of the builder; every alias a use declaration
\* introduced starts unused; returns the map as it was
add_and_shadow_all(am, acc) ==
    [aliases |->
        [modules |-> Shadow(am.modules, acc.modules),
         members |-> Shadow(am.members, acc.members),
         unused_modules |->
             am.unused_modules \cup {AliasName(e) : e \in {x \in acc.modules : ~x.implicit}},
         unused_members |->
             am.unused_members \cup {AliasName(e) : e \in {x \in acc.members : ~x.implicit}}],
     old |-> am]

OldAliasMap_is_empty(old) == old.modules = {} /\ old.members = {}

\* a lookup marks the binding it finds as used
module_alias_get(am, n) ==
    IF Bound(am.modules, n)
    THEN LET e == Get(am.modules, n) IN
         [some |-> TRUE, ident |-> e.ident, member |-> NoName,
          aliases |-> [am EXCEPT !.unused_modules = @ \ {AliasName(e)}]]
    ELSE [some |-> FALSE, ident |-> NoIdent, member |-> NoName, aliases |-> am]

member_alias_get(am, n) ==
    IF Bound(am.members, n)
    THEN LET e == Get(am.members, n) IN
         [some |-> TRUE, ident |-> e.ident, member |-> e.member,
          aliases |-> [am EXCEPT !.unused_members = @ \ {AliasName(e)}]]
    ELSE [some |-> FALSE, ident |-> NoIdent, member |-> NoName, aliases |-> am]

\* AliasMap::set_to_outer_scope: back to the outer map, whose aliases used
\* inside the scope stay used; returns the AliasSet of the aliases the
\* closed scope introduced that no lookup has found
AliasMap_set_to_outer_scope(am, outer) ==
    [aliases |-> [outer EXCEPT !.unused_modules = @ \cap am.unused_modules,
                               !.unused_members = @ \cap am.unused_members],
     modules |-> am.unused_modules \ outer.unused_modules,
     members |-> am.unused_members \ outer.unused_members]

\* ------------------------------------------------------------------------
\* Expansion (expansion/translate.rs): use declarations, scopes, name access
\* ------------------------------------------------------------------------
module_self_aliases(acc, mident) ==
    add_implicit_module_alias(acc, SELF_NAME, NoLoc, mident).acc

unbound_module(mident, loc) ==
    diag(BlockingError, "UnboundModule", loc, NoLoc, mident.module)

duplicate_module_alias(old_loc, alias, loc) ==
    diag(NonblockingError, "DuplicateItem", loc, old_loc, alias)

duplicate_module_member(old_loc, alias, loc) ==
    diag(NonblockingError, "DuplicateItem", loc, old_loc, alias)

\* unused_alias that reports for every definition, source or not
unused_alias_Always(is_source, alias) ==
    <<diag(Warning, "UnusedAlias", alias.loc, NoLoc, alias.alias)>>

\* unused_alias: nothing unless the definition is a source definition
unused_alias(is_source, alias) ==
    IF ~is_source THEN <<>>
    ELSE <<diag(Warning, "UnusedAlias", alias.loc, NoLoc, alias.alias)>>

\* E::ImplicitUseFunCandidate of a use alias
ImplicitUseFunCandidate(alias, loc, mident, member, used) ==
    [alias |-> alias, loc |-> loc, function |-> [ident |-> mident, member |-> member],
     kind |-> "UseAlias", used |-> used]

\* module_use, for a member that is a function: use_funs.implicit.remove(&alias)
\* and then the add of the candidate of this declaration, assumed used
implicit_use_fun(implicit, alias, loc, mident, member) ==
    {c \in implicit : c.alias # alias}
        \cup {ImplicitUseFunCandidate(alias, loc, mident, member, TRUE)}

\* the macro add_module_alias! of module_use
add_module_alias_(acc, mident, alias_opt, loc) ==
    LET alias == IF alias_opt = NoName THEN mident.module ELSE alias_opt
        chk   == check_restricted_name_all_cases("ModuleAlias", alias, loc)
        r     == add_module_alias(acc, alias, loc, mident)
    IN
    IF chk # <<>> THEN [acc |-> acc, diags |-> chk]
    ELSE [acc |-> r.acc,
          diags |-> IF r.err THEN <<duplicate_module_alias(r.old_loc, alias, loc)>> ELSE <<>>]

\* module_use for the use declaration muse at location loc
module_use(acc, implicit, muse, loc) ==
    LET mident == muse.ident
        none   == [acc |-> acc, use_funs |-> implicit, diags |-> <<>>]
    IN
    IF mident \notin DOMAIN module_members
    THEN [none EXCEPT !.diags = <<unbound_module(mident, loc)>>]
    ELSE IF muse.kind = "Module" \/ muse.member = SELF_NAME
    THEN LET r == add_module_alias_(acc, mident, muse.alias, loc) IN
         [acc |-> r.acc, use_funs |-> implicit, diags |-> r.diags]
    ELSE IF muse.member \notin DOMAIN module_members[mident]
    THEN [none EXCEPT !.diags =
             <<diag(BlockingError, "UnboundModuleMember", loc, NoLoc, muse.member)>>]
    ELSE LET member_kind == module_members[mident][muse.member]
             alias == IF muse.alias = NoName THEN muse.member ELSE muse.alias
             chk   == check_valid_module_member_alias(member_kind, alias, loc)
             r     == add_member_alias(acc, alias, loc, mident, muse.member)
         IN
         IF chk # <<>> THEN [none EXCEPT !.diags = chk]
         ELSE [acc |-> r.acc,
               use_funs |-> IF member_kind = "Function"
                            THEN implicit_use_fun(implicit, alias, loc, mident, muse.member)
                            ELSE implicit,
               diags |-> IF r.err THEN <<duplicate_module_member(r.old_loc, alias, loc)>>
                         ELSE <<>>]

\* E::ModuleAccess_: ModuleAccess(mident, member) or Name(n); None for an
\* access that added a diagnostic instead
ModuleAccess(mident, member) == [tag |-> "ModuleAccess", ident |-> mident, member |-> member]
Name(n) == [tag |-> "Name", ident |-> NoIdent, member |-> n]
NoAccess == [tag |-> "None", ident |-> NoIdent, member |-> NoName]

\* name_access_chain that looks every single name up, whatever the position
name_access_chain_AlwaysLooksUp(am, ptn, loc) ==
    LET none == [aliases |-> am, tn |-> Name(ptn.n1), diags |-> <<>>]
        mem  == member_alias_get(am, ptn.n1)
        mod  == module_alias_get(am, ptn.n1)
    IN
    IF ptn.chain = "One"
    THEN IF mem.some
         THEN [aliases |-> mem.aliases, tn |-> ModuleAccess(mem.ident, mem.member),
               diags |-> <<>>]
         ELSE [none EXCEPT !.aliases = mem.aliases]
    ELSE IF mod.some
         THEN [aliases |-> mod.aliases, tn |-> ModuleAccess(mod.ident, ptn.n2), diags |-> <<>>]
         ELSE [aliases |-> mod.aliases, tn |-> NoAccess,
               diags |-> <<diag(BlockingError, "UnboundModule", loc, NoLoc, ptn.n1)>>]

\* name_access_chain: a single name is looked up in the member aliases in
\* type and apply position, and in term position when it may name a struct,
\* constant or schema; a leading name of two is looked up in the module
\* aliases
name_access_chain(am, ptn, loc) ==
    LET none == [aliases |-> am, tn |-> Name(ptn.n1), diags |-> <<>>]
        mem  == member_alias_get(am, ptn.n1)
        mod  == module_alias_get(am, ptn.n1)
    IN
    IF ptn.chain = "One"
    THEN IF ptn.access = "Term" /\ ~is_valid_struct_constant_or_schema_name(ptn.n1)
         THEN none
         ELSE IF mem.some
              THEN [aliases |-> mem.aliases, tn |-> ModuleAccess(mem.ident, mem.member),
                    diags |-> <<>>]
              ELSE [none EXCEPT !.aliases = mem.aliases]
    ELSE IF mod.some
         THEN [aliases |-> mod.aliases, tn |-> ModuleAccess(mod.ident, ptn.n2), diags |-> <<>>]
         ELSE [aliases |-> mod.aliases, tn |-> NoAccess,
               diags |-> <<diag(BlockingError, "UnboundModule", loc, NoLoc, ptn.n1)>>]

\* a set of alias names as the sequence the loops of set_to_outer_scope visit
RECURSIVE InOrder(_)
InOrder(S) ==
    IF S = {} THEN <<>>
    ELSE LET a == CHOOSE x \in S : \A y \in S : x.loc <= y.loc IN
         <<a>> \o InOrder(S \ {a})

\* `for alias in modules { unused_alias(self, alias) }`
RECURSIVE unused_aliases(_, _)
unused_aliases(is_source, as) ==
    IF as = <<>> THEN <<>>
    ELSE unused_alias(is_source, Head(as)) \o unused_aliases(is_source, Tail(as))

\* aliases_from_member on a P::ModuleMember::Function named n: the macro
\* check_name_and_add_implicit_alias!(ModuleMemberKind::Function, n)
aliases_from_function(acc, n, loc) ==
    LET chk == check_valid_module_member_name_impl("Function", n, loc)
        r   == add_implicit_member_alias(acc, n, loc, current_module, n)
    IN
    IF chk # <<>> THEN [acc |-> acc, diags |-> chk]
    ELSE [acc |-> r.acc,
          diags |-> IF r.err THEN <<duplicate_module_member(r.old_loc, n, loc)>> ELSE <<>>]

\* function_: `let _ = use_funs_builder.implicit.add(name.0, implicit)` with
\* the FunctionDeclaration candidate; the add fails, and is ignored, when
\* the name has a candidate
function_candidate(implicit, n, loc) ==
    IF \E c \in implicit : c.alias = n THEN implicit
    ELSE implicit \cup {[alias |-> n, loc |-> loc,
                         function |-> [ident |-> current_module, member |-> n],
                         kind |-> "FunctionDeclaration", used |-> TRUE]}

\* Option<&mut E::UseFuns>
SomeUseFuns(implicit) == [some |-> TRUE, implicit |-> implicit]
NoUseFuns(implicit) == [some |-> FALSE, implicit |-> implicit]

\* set_to_outer_scope that takes a candidate of any kind for a use alias
set_to_outer_scope_AnyKind(is_source, am, use_funs_opt, outer_scope) ==
    LET r == AliasMap_set_to_outer_scope(am, outer_scope)
        candidate(a) ==
            use_funs_opt.some /\ \E c \in use_funs_opt.implicit : c.alias = a.alias
    IN
    [aliases |-> r.aliases,
     use_funs |-> {IF candidate(c) /\ (\E a \in r.members : a.alias = c.alias)
                   THEN [c EXCEPT !.used = FALSE] ELSE c : c \in use_funs_opt.implicit},
     diags |-> unused_aliases(is_source, InOrder(r.modules))
                 \o unused_aliases(is_source, InOrder({a \in r.members : ~candidate(a)}))]

\* Context::set_to_outer_scope: the unused module aliases are reported; an
\* unused member alias with a UseAlias candidate in the use_funs.implicit of
\* the table supplied marks the candidate unused instead, any other is
\* reported
set_to_outer_scope(is_source, am, use_funs_opt, outer_scope) ==
    LET r == AliasMap_set_to_outer_scope(am, outer_scope)
        candidate(a) ==
            /\ use_funs_opt.some
            /\ \E c \in use_funs_opt.implicit : c.alias = a.alias /\ c.kind = "UseAlias"
    IN
    [aliases |-> r.aliases,
     use_funs |-> {IF candidate(c) /\ c.kind = "UseAlias"
                      /\ (\E a \in r.members : a.alias = c.alias)
                   THEN [c EXCEPT !.used = FALSE] ELSE c : c \in use_funs_opt.implicit},
     diags |-> unused_aliases(is_source, InOrder(r.modules))
                 \o unused_aliases(is_source, InOrder({a \in r.members : ~candidate(a)}))]

\* ------------------------------------------------------------------------
\* Warning filters (translate.rs: warning_filter, module_warning_filter)
\* ------------------------------------------------------------------------
\* parameters of one allow attribute
MaxInner == 2

FILTER_ALL == "all"

\* env.filter_attributes(): the attribute names that declare filters
filter_attributes == {"allow"}

\* env.filter_from_str(name, allow): the filters a name stands for, none
\* for a name that is not known
filter_from_str(name, allow) ==
    IF name \in {FILTER_ALL, "unused"} THEN {[prefix |-> allow, name |-> name]} ELSE {}

\* the warnings filters are matched against, and the match
Warnings == [prefix : filter_attributes, category : {"unused", "other"}]

Suppresses(filters, w) ==
    \E f \in filters : f.prefix = w.prefix /\ (f.name = FILTER_ALL \/ f.name = w.category)

\* Context::new: all_filter_alls
all_filter_alls == UNION {filter_from_str(FILTER_ALL, allow) : allow \in filter_attributes}

\* the allow attribute of a declaration: absent, `#[allow]` without a list
\* (Name), or `#[allow(...)]` with inner attributes `n`, `n = v` or `n(...)`
InnerAttrs ==
    [form : {"Name", "Assigned", "Parameterized"}, name : {FILTER_ALL, "unused", "bogus"}]

AllowAttrs ==
    {[value |-> "None", inner |-> <<>>], [value |-> "Name", inner |-> <<>>]}
        \cup {[value |-> "Parameterized", inner |-> i] : i \in SeqsUpTo(InnerAttrs, MaxInner)}

\* warning_filter: the loop over the inner attributes of one allow attribute
RECURSIVE inner_filters(_, _)
inner_filters(inners, loc) ==
    IF inners = <<>> THEN [filters |-> {}, diags |-> <<>>]
    ELSE LET a    == Head(inners)
             rest == inner_filters(Tail(inners), loc + 1)
             fs   == filter_from_str(a.name, "allow")
             d1   == IF a.form \in {"Assigned", "Parameterized"}
                     THEN <<diag(NonblockingError, "InvalidValue", loc, NoLoc, a.name)>>
                     ELSE <<>>
             d2   == IF fs = {}
                     THEN <<diag(NonblockingError, "InvalidValue", 0, NoLoc, a.name)>>
                     ELSE <<>>
         IN [filters |-> fs \cup rest.filters, diags |-> d1 \o d2 \o rest.diags]

\* warning_filter(context, attributes)
warning_filter_(attr) ==
    IF attr.value = "None" THEN [filters |-> {}, diags |-> <<>>]
    ELSE IF attr.value = "Name" \/ attr.inner = <<>>
    THEN [filters |-> {},
          diags |-> <<diag(NonblockingError, "InvalidValue", 0, NoLoc, "allow")>>]
    ELSE inner_filters(attr.inner, 1)

\* module_warning_filter that looks at the origin of the definition only
module_warning_filter_SourceOnly(is_source, config, attr) ==
    [filters |-> IF ~is_source THEN all_filter_alls ELSE warning_filter_(attr).filters,
     diags |-> warning_filter_(attr).diags]

\* module_warning_filter: the filters are checked for errors and, for a
\* dependency, thrown away for all_filter_alls
module_warning_filter(is_source, config, attr) ==
    LET filters == warning_filter_(attr)
        is_dep  == ~is_source \/ config.is_dependency
    IN [filters |-> IF is_dep THEN all_filter_alls ELSE filters.filters,
        diags |-> filters.diags]

\* the filter variables outside the translation of a module
IdleFilter ==
    /\ attributes = [value |-> "None", inner |-> <<>>]
    /\ package_config = [is_dependency |-> FALSE, warning_filter |-> {}]
    /\ warning_filter_scopes = <<>>
    /\ warning_filter = {}

\* the variables of program outside a call of program
IdleProgram ==
    /\ ppc = "idle"
    /\ sources_shadow_deps = FALSE
    /\ source_definitions = <<>>
    /\ lib_definitions = <<>>
    /\ next_def = 1
    /\ source_module_map = {}
    /\ lib_module_map = {}
    /\ scripts = <<>>
    /\ keyed = {}

NoAddress == [kind |-> "None", name |-> NoName, value |-> 0, name_conflict |-> FALSE]

\* the variables of the named addresses outside a call of program
IdleAddress ==
    /\ apc = "idle"
    /\ named_address_maps = <<>>
    /\ pre_compiled_maps = <<>>
    /\ address_conflicts = {}
    /\ named_address_mapping = 0
    /\ address = NoAddress

\* the variables of a literal outside exp_
IdleValue ==
    /\ vpc = "idle"
    /\ pvalue = [suffix |-> "", v |-> Num(0, 1)]
    /\ evalue = [some |-> FALSE, value |-> NoValue]
    /\ eexp = "None"

\* the variables of the interface files when no compilation generates any
IdleInterface ==
    /\ separate_by_hash = TRUE
    /\ module_to_named_address = "none"
    /\ mv_files = <<>>
    /\ disk = <<>>
    /\ worker = <<>>
    /\ tmp = <<>>
    /\ result = <<>>
    /\ renames = <<>>
    /\ passed = <<>>
    /\ discarded = <<>>

NoUse == [mident |-> NoIdent, member |-> NoName, module |-> FALSE, kind |-> "None"]

\* the variables of the module-member index outside program
IdleMembers ==
    /\ mpc = "idle"
    /\ pre_compiled_definitions = <<>>
    /\ members = <<>>
    /\ resolved_use = NoUse

NoBindings == [modules |-> {}, members |-> {}]

NoneLeft == [translator |-> "None", before |-> [aliases |-> NoBindings, depth |-> 0],
             inside |-> [aliases |-> NoBindings, depth |-> 0],
             after |-> [aliases |-> NoBindings, depth |-> 0]]

\* the variables of the translators in progress outside the expansion pass
IdleWalk ==
    /\ wpc = "idle"
    /\ frames = <<>>
    /\ in_spec_context = FALSE
    /\ entered = 0
    /\ last_left = NoneLeft

\* the variables of the unbound names outside bind_exp_spec
IdleUnbound ==
    /\ upc = "idle"
    /\ espec_block = <<>>
    /\ unbound_names = {}

\* the variables of the attributes outside flatten_attributes
IdleAttributes ==
    /\ atpc = "idle"
    /\ attr_position = "Module"
    /\ pattributes = <<>>
    /\ all_attrs = <<>>
    /\ attr_map = {}

\* no expression
NoExp == [form |-> "None", op |-> "", loc |-> 0, subs |-> <<>>]

\* the variables of one expression outside exp_
IdleForms ==
    /\ fpc = "idle"
    /\ pexp = NoExp
    /\ dot_call = TRUE
    /\ eexp_ = NoExp
    /\ translated = {}

\* the variables of the members of a definition outside module_ and script_
IdleDecl ==
    /\ dpc = "idle"
    /\ dkind = "module_"
    /\ pmembers = <<>>
    /\ dnext = 1
    /\ member_map = {}
    /\ dropped = <<>>

\* no into_ast yet
NotExtracted == [P |-> EMPTY_COMPILER, program |-> NoProgram, diags |-> <<>>]

\* the variables of stopping and resuming outside a stepped compilation
IdleResume ==
    /\ caller = "api"
    /\ testing = FALSE
    /\ ast = NoProgram
    /\ extracted = NotExtracted
    /\ plans = <<>>

IdleLater ==
    /\ IdleMembers
    /\ IdleWalk
    /\ IdleUnbound
    /\ IdleAttributes
    /\ IdleForms
    /\ IdleDecl
    /\ IdleResume

IdleRest ==
    /\ IdleLater
    /\ IdleProgram
    /\ IdleAddress
    /\ IdleValue
    /\ IdleInterface

\* the expansion variables outside the translation of a module
IdleExp ==
    /\ epc = "idle"
    /\ is_source_definition = FALSE
    /\ new_scope = AliasMapBuilder_new
    /\ use_funs = {}
    /\ aliases = AliasMap_new
    /\ old_aliases = AliasMap_new
    /\ uses = <<>>
    /\ accesses = <<>>
    /\ resolved = <<>>
    /\ scope = "module"
    /\ functions = <<>>
    /\ IdleFilter

\* ------------------------------------------------------------------------
\* Pipeline driver (command_line/compiler.rs)
\* ------------------------------------------------------------------------
equivalent_pass(prog) == prog.pass

is_some(prog) == prog # NoProgram

\* GateSeverity with the gate after typing lowered to Bug
GateSeverity_TypingBug(k) ==
    CASE k = PASS_PARSER    -> Bug
      [] k = PASS_EXPANSION -> Bug
      [] k = PASS_NAMING    -> Bug
      [] k = PASS_TYPING    -> Bug
      [] k = PASS_HLIR      -> NonblockingError
      [] k = PASS_CFGIR     -> NonblockingError

\* GateSeverity with every gate at Bug
GateSeverity_AllBug(k) == Bug

\* the severity each arm of run() hands to check_diags_at_or_above_severity,
\* by the variant the arm consumes
GateSeverity(k) ==
    CASE k = PASS_PARSER    -> Bug
      [] k = PASS_EXPANSION -> Bug
      [] k = PASS_NAMING    -> BlockingError
      [] k = PASS_TYPING    -> Bug
      [] k = PASS_HLIR      -> NonblockingError
      [] k = PASS_CFGIR     -> NonblockingError

\* run_impl_asserts without the comparison of the variant with P
run_impl_asserts_NoVariant(P, prog, TARGET) ==
    /\ P > EMPTY_COMPILER
    /\ is_some(prog)
    /\ P <= PASS_COMPILATION
    /\ P <= TARGET

\* the assertions of run_impl, in order
run_impl_asserts(P, prog, TARGET) ==
    /\ P > EMPTY_COMPILER
    /\ is_some(prog)
    /\ equivalent_pass(prog) = P
    /\ P <= PASS_COMPILATION
    /\ P <= TARGET

\* run(): assert!(until <= PASS_COMPILATION)
run_asserts(u) == u <= PASS_COMPILATION

\* a run() that never finds its target reached
reached_Never(cur, u) == FALSE

\* reached with > for >=
reached_Strict(cur, u) == equivalent_pass(cur) > u

\* run(): `if cur.equivalent_pass() >= until { return Ok(cur) }`
reached(cur, u) == equivalent_pass(cur) >= u

\* TakesFinalWarnings with the HLIR arm taking the warnings as well
TakesFinalWarnings_Early(k) == k >= PASS_HLIR

\* run(): only the CFGIR arm calls take_final_warning_diags
TakesFinalWarnings(k) == k = PASS_CFGIR

\* result_check whose save_result has no arm for the Compilation variant
result_check_NoCompiled(md, snaps, cur) ==
    IF md = "stepped" \/ equivalent_pass(cur) = PASS_COMPILATION
    THEN [panic |-> FALSE, snaps |-> snaps]
    ELSE IF \E i \in 1..Len(snaps) : snaps[i] = equivalent_pass(cur)
         THEN [panic |-> TRUE, snaps |-> snaps]
         ELSE [panic |-> FALSE, snaps |-> Append(snaps, equivalent_pass(cur))]

\* the callback of run(): |_, _| () for a stepped compiler, save_result for
\* construct_pre_compiled_lib (which asserts that the slot is still empty)
result_check(md, snaps, cur) ==
    IF md = "stepped" THEN [panic |-> FALSE, snaps |-> snaps]
    ELSE IF \E i \in 1..Len(snaps) : snaps[i] = equivalent_pass(cur)
         THEN [panic |-> TRUE, snaps |-> snaps]
         ELSE [panic |-> FALSE, snaps |-> Append(snaps, equivalent_pass(cur))]

\* what the pass run on variant k adds to the ledger: expansion translates
\* the program's literals, every other pass is opaque
Translate(k, prog, sev, room) ==
    IF k = PASS_PARSER
    THEN LET vs == values(prog.lits, sev, PASS_EXPANSION) IN
         {vs \o ds : ds \in PassDiags(PASS_EXPANSION, room - Len(vs))}
    ELSE PassDiags(k + 1, room)

\* NextResult building the variant two stages on
NextResult_Skip(k, ws) == PassResult(k + 2, <<>>, ws)

\* the variant an arm of run() builds from the one it consumed
NextResult(k, ws) == PassResult(k + 1, <<>>, ws)

\* GateFailure returning the errors only, without the warnings
GateFailure_ErrorsOnly(chk) ==
    FilterSeq(chk.diags, [d \in Range(chk.diags) |-> d.sev >= NonblockingError])

\* the diagnostics an aborting gate returns: the `?` on the Err of
\* check_diags_at_or_above_severity
GateFailure(chk) == chk.diags

\* the ownership of the variants across one arm: cur is moved into the
\* pass, the result is the only variant passed on
Replace(owned, cur, next) == (owned \ {cur}) \cup {next}

Panic ==
    /\ pc' = "panic"
    /\ program' = NoProgram
    /\ live' = {}
    /\ UNCHANGED <<mode, hP, diags, failure, warnings, executed, gates,
                   takes, snapshots, emitted, start, numSev, expVars>>

\* SteppedCompiler::run::<TARGET>() = run_impl, up to and including the
\* assertion at the entry of run()
RunImpl(TARGET) ==
    /\ pc = "handle"
    /\ mode = "stepped"
    /\ until' = TARGET
    /\ IF run_impl_asserts(hP, program, TARGET) /\ run_asserts(TARGET)
       THEN /\ pc' = "run"
            /\ UNCHANGED <<mode, hP, program, diags, failure, warnings, live,
                           executed, gates, takes, snapshots, emitted, start, numSev, expVars>>
       ELSE Panic

\* construct_pre_compiled_lib, from the parsed program to its call of run()
\* with until = PASS_COMPILATION and save_result
ConstructPreCompiledLib ==
    /\ pc = "handle"
    /\ mode = "precompiled"
    /\ pc' = "run"
    /\ until' = PASS_COMPILATION
    /\ UNCHANGED <<mode, hP, program, diags, failure, warnings, live,
                   executed, gates, takes, snapshots, emitted, start, numSev, expVars>>

\* run(): result_check, then `if cur.equivalent_pass() >= until return Ok(cur)`;
\* the caller then checks the result (run_impl: the variant is TARGET;
\* construct_pre_compiled_lib: every slot unwraps)
RunReturn ==
    /\ pc = "run"
    /\ reached(program, until)
    /\ LET rc == result_check(mode, snapshots, program) IN
       IF ~run_asserts(until)
          \/ rc.panic
          \/ (mode = "stepped" /\ equivalent_pass(program) # until)
          \/ (mode = "precompiled"
                /\ \E k \in PASS_PARSER..PASS_COMPILATION :
                       \A i \in 1..Len(rc.snaps) : rc.snaps[i] # k)
       THEN Panic /\ UNCHANGED until
       ELSE /\ pc' = "ok"
            /\ hP' = until
            /\ snapshots' = rc.snaps
            /\ UNCHANGED <<mode, program, until, diags, failure, warnings, live,
                           executed, gates, takes, emitted, start, numSev, expVars>>

\* run(): one arm of the match on cur, for the variant k: the translation,
\* the severity gate, and for CFGIR the taking of the final warnings
RunArm(k) ==
    /\ pc = "run"
    /\ equivalent_pass(program) = k
    /\ ~reached(program, until)
    /\ \E ds \in Translate(k, program, numSev, MaxLedger - Len(diags)) :
       LET rc  == result_check(mode, snapshots, program)
           led == add_diags(diags, ds)
           chk == check_diags_at_or_above_severity(led, GateSeverity(k))
           tk  == IF TakesFinalWarnings(k) THEN take_final_warning_diags(led)
                  ELSE [taken |-> <<>>, rest |-> led]
       IN
       IF ~run_asserts(until) \/ rc.panic THEN Panic /\ UNCHANGED until
       ELSE /\ snapshots' = rc.snaps
            /\ executed' = Append(executed, k + 1)
            /\ gates' = Append(gates, [arm |-> k, ledger |-> led, abort |-> chk.err])
            /\ emitted' = emitted \o ds
            /\ IF chk.err
               THEN /\ pc' = "err"
                    /\ failure' = GateFailure(chk)
                    /\ diags' = led
                    /\ program' = NoProgram
                    /\ live' = live \ {k}
                    /\ UNCHANGED <<takes>>
               ELSE /\ pc' = "run"
                    /\ diags' = tk.rest
                    /\ program' = NextResult(k, tk.taken)
                    /\ live' = Replace(live, k, equivalent_pass(NextResult(k, tk.taken)))
                    /\ takes' = IF TakesFinalWarnings(k)
                                THEN Append(takes, [at |-> k, taken |-> tk.taken])
                                ELSE takes
                    /\ UNCHANGED <<failure>>
            /\ UNCHANGED <<mode, hP, until, warnings, start, numSev, expVars>>

RunParser == RunArm(PASS_PARSER)
RunExpansion == RunArm(PASS_EXPANSION)
RunNaming == RunArm(PASS_NAMING)
RunTyping == RunArm(PASS_TYPING)
RunHLIR == RunArm(PASS_HLIR)
RunCFGIR == RunArm(PASS_CFGIR)

\* SteppedCompiler<PASS_COMPILATION>::into_compiled_units
IntoCompiledUnits ==
    /\ pc = "ok"
    /\ mode = "stepped"
    /\ hP = PASS_COMPILATION
    /\ IF equivalent_pass(program) = PASS_COMPILATION
       THEN /\ pc' = "units"
            /\ warnings' = program.warnings
            /\ program' = NoProgram
            /\ live' = {}
            /\ UNCHANGED <<mode, hP, until, diags, failure, executed, gates,
                           takes, snapshots, emitted, start, numSev, expVars>>
       ELSE Panic /\ UNCHANGED until

\* The handles a run starts from: every SteppedCompiler<P> the constructors
\* build (P = 0 without a program, P = k with the variant k), and the
\* handles the assertions of run_impl exclude.
Handles ==
    {[P |-> p, program |-> prog] :
        p \in EMPTY_COMPILER..(PASS_COMPILATION + 1),
        prog \in {NoProgram}
              \cup {PassResult(PASS_PARSER, ls, <<>>) : ls \in SeqsUpTo(Literals, MaxLits)}
              \cup {PassResult(k, <<>>, <<>>) : k \in PASS_EXPANSION..PASS_COMPILATION}}

Targets == EMPTY_COMPILER..(PASS_COMPILATION + 1)

InitDriver ==
    /\ mode \in {"stepped", "precompiled"}
    /\ \E h \in Handles :
        /\ mode = "precompiled" =>
              h.P = PASS_PARSER /\ equivalent_pass(h.program) = PASS_PARSER
        /\ hP = h.P
        /\ program = h.program
        /\ live = IF is_some(h.program) THEN {equivalent_pass(h.program)} ELSE {}
    /\ until = EMPTY_COMPILER
    /\ pc = "handle"
    /\ diags \in SeqsUpTo({Diag(s, EMPTY_COMPILER) : s \in Severity}, MaxInitDiags)
    /\ emitted = diags
    /\ start = [P |-> hP, program |-> program, diags |-> diags]
    /\ numSev \in IF \E i \in 1..Len(program.lits) : ~parse_u8(program.lits[i].v).ok
                  THEN ErrorSeverities ELSE {NonblockingError}
    /\ failure = <<>>
    /\ warnings = <<>>
    /\ executed = <<>>
    /\ gates = <<>>
    /\ takes = <<>>
    /\ snapshots = <<>>
    /\ IdleExp
    /\ IdleRest

NextDriver ==
    \/ \E t \in Targets : RunImpl(t)
    \/ ConstructPreCompiledLib
    \/ RunReturn
    \/ RunParser
    \/ RunExpansion
    \/ RunNaming
    \/ RunTyping
    \/ RunHLIR
    \/ RunCFGIR
    \/ IntoCompiledUnits

SpecDriver == InitDriver /\ [][NextDriver]_vars

\* run() is one sequential recursion and every pass returns: a run that
\* can take its next step takes it
RunStep ==
    \/ RunReturn
    \/ RunParser
    \/ RunExpansion
    \/ RunNaming
    \/ RunTyping
    \/ RunHLIR
    \/ RunCFGIR

SpecDriverFair == InitDriver /\ [][NextDriver]_vars /\ WF_vars(RunStep)

\* ------------------------------------------------------------------------
\* Stopping and resuming: into_ast, at_<S>, move_check_for_errors
\* ------------------------------------------------------------------------
outsideResume == <<epc, is_source_definition, new_scope, use_funs, aliases, old_aliases, uses,
                   accesses, resolved, scope, functions, filterVars, programVars, addressVars,
                   valueVars, interfaceVars, memberVars, walkVars, unboundVars, attributeVars,
                   formVars, declVars>>

\* an at_<S> that builds the handle around a new compilation environment
AtAst_FreshEnv ==
    /\ pc = "handle"
    /\ mode = "stepped"
    /\ hP = EMPTY_COMPILER
    /\ ast # NoProgram
    /\ caller = "move_check_for_errors" => (testing => plans # <<>>)
    /\ hP' = equivalent_pass(ast)
    /\ program' = ast
    /\ live' = {equivalent_pass(ast)}
    /\ ast' = NoProgram
    /\ diags' = <<>>
    /\ UNCHANGED <<mode, until, pc, failure, warnings, executed, gates, takes,
                   snapshots, emitted, start, numSev, caller, testing, extracted, plans,
                   outsideResume>>

\* SteppedCompiler<S>::into_ast: the handle gives up its AST and becomes a
\* SteppedCompiler<EMPTY_COMPILER> around the same compilation_env;
\* move_check_for_errors calls it on the result of run::<PASS_CFGIR>()
IntoAst ==
    /\ pc \in {"handle", "ok"}
    /\ mode = "stepped"
    /\ hP \in PASS_PARSER..PASS_CFGIR
    /\ ast = NoProgram
    /\ caller = "move_check_for_errors" => pc = "ok" /\ extracted = NotExtracted
    /\ IF equivalent_pass(program) = hP
       THEN /\ pc' = "handle"
            /\ hP' = EMPTY_COMPILER
            /\ program' = NoProgram
            /\ live' = {}
            /\ ast' = program
            /\ extracted' = [P |-> hP, program |-> program, diags |-> diags]
            /\ UNCHANGED <<mode, until, diags, failure, warnings, executed, gates, takes,
                           snapshots, emitted, start, numSev, caller, testing, plans,
                           outsideResume>>
       ELSE Panic /\ UNCHANGED until

\* SteppedCompiler<EMPTY_COMPILER>::at_<S>(ast): assert!(program.is_none()),
\* then new_at_<S> around the same compilation_env; move_check_for_errors
\* calls at_cfgir after the test plan, if there is one
AtAst ==
    /\ pc = "handle"
    /\ mode = "stepped"
    /\ hP = EMPTY_COMPILER
    /\ ast # NoProgram
    /\ caller = "move_check_for_errors" => (testing => plans # <<>>)
    /\ IF program = NoProgram
       THEN /\ hP' = equivalent_pass(ast)
            /\ program' = ast
            /\ live' = {equivalent_pass(ast)}
            /\ ast' = NoProgram
            /\ UNCHANGED <<mode, until, pc, diags, failure, warnings, executed, gates, takes,
                           snapshots, emitted, start, numSev, caller, testing, extracted,
                           plans, outsideResume>>
       ELSE Panic /\ UNCHANGED until

\* move_check_for_errors: `if compilation_env.flags().is_testing()` then
\* construct_test_plan(compilation_env, None, &cfgir), which may add
\* diagnostics to the ledger
ConstructTestPlan ==
    /\ caller = "move_check_for_errors"
    /\ pc = "handle"
    /\ ast # NoProgram
    /\ testing
    /\ plans = <<>>
    /\ \E ds \in PassDiags(PASS_CFGIR, MaxLedger - Len(diags)) :
          /\ diags' = add_diags(diags, ds)
          /\ emitted' = emitted \o ds
    /\ plans' = Append(plans, [ast |-> equivalent_pass(ast), executed |-> executed])
    /\ UNCHANGED <<mode, hP, program, until, pc, failure, warnings, live, executed, gates,
                   takes, snapshots, start, numSev, caller, testing, ast, extracted,
                   outsideResume>>

\* run::<TARGET>() on a handle that holds its AST; move_check_for_errors
\* runs to PASS_CFGIR first and, on the resumed handle, build() runs to
\* PASS_COMPILATION
ResumeRun ==
    /\ ast = NoProgram
    /\ \E t \in Targets :
          /\ caller = "move_check_for_errors" =>
                t = IF extracted = NotExtracted THEN PASS_CFGIR ELSE PASS_COMPILATION
          /\ RunImpl(t)

InitResume ==
    /\ mode = "stepped"
    /\ caller \in {"api", "move_check_for_errors"}
    /\ testing \in BOOLEAN
    \* the flag is read by move_check_for_errors only
    /\ caller = "api" => ~testing
    /\ \E h \in Handles :
        /\ caller = "move_check_for_errors" =>
              h.P = PASS_PARSER /\ equivalent_pass(h.program) = PASS_PARSER
        /\ hP = h.P
        /\ program = h.program
        /\ live = IF is_some(h.program) THEN {equivalent_pass(h.program)} ELSE {}
    /\ until = EMPTY_COMPILER
    /\ pc = "handle"
    /\ diags \in SeqsUpTo({Diag(s, EMPTY_COMPILER) : s \in Severity}, MaxInitDiags)
    /\ emitted = diags
    /\ start = [P |-> hP, program |-> program, diags |-> diags]
    /\ numSev \in IF \E i \in 1..Len(program.lits) : ~parse_u8(program.lits[i].v).ok
                  THEN ErrorSeverities ELSE {NonblockingError}
    /\ failure = <<>>
    /\ warnings = <<>>
    /\ executed = <<>>
    /\ gates = <<>>
    /\ takes = <<>>
    /\ snapshots = <<>>
    /\ ast = NoProgram
    /\ extracted = NotExtracted
    /\ plans = <<>>
    /\ IdleExp
    /\ IdleProgram
    /\ IdleAddress
    /\ IdleValue
    /\ IdleInterface
    /\ IdleMembers
    /\ IdleWalk
    /\ IdleUnbound
    /\ IdleAttributes
    /\ IdleForms
    /\ IdleDecl

NextResume ==
    \/ ResumeRun
    \/ RunReturn
    \/ RunParser
    \/ RunExpansion
    \/ RunNaming
    \/ RunTyping
    \/ RunHLIR
    \/ RunCFGIR
    \/ IntoCompiledUnits
    \/ IntoAst
    \/ ConstructTestPlan
    \/ AtAst

SpecResume == InitResume /\ [][NextResume]_vars

\* ------------------------------------------------------------------------
\* Expansion of one module: module_ (translate.rs)
\* ------------------------------------------------------------------------
driverRest == <<mode, hP, program, until, pc, failure, warnings, live, executed,
                gates, takes, snapshots, emitted, start, numSev, filterVars, restVars>>

\* module_: aliases_from_member on a P::ModuleMember::Use, i.e. use_ and
\* module_use on the next use declaration of the module
AliasesFromMember(u) ==
    /\ epc = "members"
    /\ Len(uses) < MaxUses
    /\ LET r == module_use(new_scope, use_funs, u, Len(uses) + 1) IN
       /\ new_scope' = r.acc
       /\ use_funs' = r.use_funs
       /\ diags' = add_diags(diags, r.diags)
    /\ uses' = Append(uses, u)
    /\ UNCHANGED <<epc, is_source_definition, aliases, old_aliases, accesses, resolved,
                   scope, functions>>
    /\ UNCHANGED driverRest

\* module_: context.aliases.add_and_shadow_all(new_scope) and the assertion
\* that no alias enters a module
AddAndShadowAll ==
    /\ epc = "members"
    /\ LET r == add_and_shadow_all(aliases, new_scope) IN
       /\ aliases' = r.aliases
       /\ old_aliases' = r.old
       /\ epc' = IF scope = "module" /\ ~OldAliasMap_is_empty(r.old) THEN "panic" ELSE "body"
    /\ UNCHANGED <<is_source_definition, new_scope, use_funs, uses, accesses, resolved,
                   scope, functions>>
    /\ UNCHANGED <<diags, driverRest>>

\* module_: one name_access_chain of the translation of the members
TranslateNameAccessChain(ptn) ==
    /\ epc = "body"
    /\ Len(accesses) < MaxAccesses
    /\ LET r == name_access_chain(aliases, ptn, MaxUses + 2 + Len(accesses)) IN
       /\ aliases' = r.aliases
       /\ resolved' = Append(resolved, r.tn)
       /\ diags' = add_diags(diags, r.diags)
    /\ accesses' = Append(accesses, ptn)
    /\ UNCHANGED <<epc, is_source_definition, new_scope, use_funs, old_aliases, uses,
                   scope, functions>>
    /\ UNCHANGED driverRest

\* module_: context.set_to_outer_scope(Some(&mut use_funs), old_aliases)
SetToOuterScope ==
    /\ epc = "body"
    /\ \A i \in 1..Len(functions) : functions[i].done
    /\ LET r == set_to_outer_scope(is_source_definition, aliases,
                                   IF scope = "module" THEN SomeUseFuns(use_funs)
                                   ELSE NoUseFuns(use_funs),
                                   old_aliases) IN
       /\ aliases' = r.aliases
       /\ use_funs' = r.use_funs
       /\ diags' = add_diags(diags, r.diags)
    /\ epc' = "closed"
    /\ UNCHANGED <<is_source_definition, new_scope, old_aliases, uses, accesses, resolved,
                   scope, functions>>
    /\ UNCHANGED driverRest

\* module_ entered from the expansion pass of a run on a parsed program, as
\* a source definition or as a dependency (definition), with the builder
\* holding the module's Self alias
InitExp ==
    /\ mode = "stepped"
    /\ hP = PASS_PARSER
    /\ program = PassResult(PASS_PARSER, <<>>, <<>>)
    /\ until = PASS_EXPANSION
    /\ pc = "run"
    /\ diags = <<>>
    /\ failure = <<>>
    /\ warnings = <<>>
    /\ live = {PASS_PARSER}
    /\ executed = <<>>
    /\ gates = <<>>
    /\ takes = <<>>
    /\ snapshots = <<>>
    /\ emitted = <<>>
    /\ start = [P |-> hP, program |-> program, diags |-> diags]
    /\ numSev = NonblockingError
    /\ epc = "members"
    /\ is_source_definition \in BOOLEAN
    /\ new_scope = module_self_aliases(AliasMapBuilder_new, current_module)
    /\ use_funs = {}
    /\ aliases = AliasMap_new
    /\ old_aliases = AliasMap_new
    /\ uses = <<>>
    /\ accesses = <<>>
    /\ resolved = <<>>
    /\ scope = "module"
    /\ functions = <<>>
    /\ IdleFilter
    /\ IdleRest

NextExp ==
    \/ \E u \in UseDecls : AliasesFromMember(u)
    \/ AddAndShadowAll
    \/ \E ptn \in NameAccessChains : TranslateNameAccessChain(ptn)
    \/ SetToOuterScope

SpecExp == InitExp /\ [][NextExp]_vars

\* module_: aliases_from_member on a P::ModuleMember::Function
AliasesFromFunction(n) ==
    /\ epc = "members"
    /\ scope = "module"
    /\ Len(functions) < MaxFunctions
    /\ LET loc == 100 + Len(functions) + 1
           r   == aliases_from_function(new_scope, n, loc)
       IN
       /\ new_scope' = r.acc
       /\ diags' = add_diags(diags, r.diags)
       /\ functions' = Append(functions, [name |-> n, loc |-> loc, done |-> FALSE])
    /\ UNCHANGED <<epc, is_source_definition, use_funs, aliases, old_aliases, uses,
                   accesses, resolved, scope>>
    /\ UNCHANGED driverRest

\* module_: function() on the next function of the module, as far as the
\* use-fun table goes
Function ==
    /\ epc = "body"
    /\ \E i \in 1..Len(functions) :
        /\ ~functions[i].done
        /\ \A j \in 1..(i - 1) : functions[j].done
        /\ use_funs' = function_candidate(use_funs, functions[i].name, functions[i].loc)
        /\ functions' = [functions EXCEPT ![i].done = TRUE]
    /\ UNCHANGED <<epc, is_source_definition, new_scope, aliases, old_aliases, uses,
                   accesses, resolved, scope>>
    /\ UNCHANGED <<diags, driverRest>>

\* the use declarations and name accesses of the scopes explored for the
\* use-fun candidates: aliases of the function f and of the struct S
ScopeUseDecls ==
    {UseDecl("Members", ModuleIdent_(1, "M"), "f", NoName),
     UseDecl("Members", ModuleIdent_(1, "M"), "f", "A"),
     UseDecl("Members", ModuleIdent_(2, "M"), "f", "A"),
     UseDecl("Members", ModuleIdent_(1, "M"), "S", "A")}

ScopeNameAccessChains ==
    {NameAccessChain("Type", "One", n, NoName) : n \in {"A", "f"}}

\* a scope opened by module_ (with the Self alias in its builder, on an empty
\* alias map) or by spec() inside a module (an empty builder, on the alias
\* map of the module)
InitScope ==
    /\ mode = "stepped"
    /\ hP = PASS_PARSER
    /\ program = PassResult(PASS_PARSER, <<>>, <<>>)
    /\ until = PASS_EXPANSION
    /\ pc = "run"
    /\ diags = <<>>
    /\ failure = <<>>
    /\ warnings = <<>>
    /\ live = {PASS_PARSER}
    /\ executed = <<>>
    /\ gates = <<>>
    /\ takes = <<>>
    /\ snapshots = <<>>
    /\ emitted = <<>>
    /\ start = [P |-> hP, program |-> program, diags |-> diags]
    /\ numSev = NonblockingError
    /\ epc = "members"
    /\ is_source_definition \in BOOLEAN
    /\ scope \in {"module", "spec"}
    /\ new_scope = IF scope = "module"
                   THEN module_self_aliases(AliasMapBuilder_new, current_module)
                   ELSE AliasMapBuilder_new
    /\ use_funs = {}
    /\ aliases = IF scope = "module" THEN AliasMap_new
                 ELSE add_and_shadow_all(
                          AliasMap_new,
                          module_self_aliases(AliasMapBuilder_new, current_module)).aliases
    /\ old_aliases = AliasMap_new
    /\ uses = <<>>
    /\ accesses = <<>>
    /\ resolved = <<>>
    /\ functions = <<>>
    /\ IdleFilter
    /\ IdleRest

NextScope ==
    \/ \E u \in ScopeUseDecls : AliasesFromMember(u)
    \/ \E n \in {"A", "f"} : AliasesFromFunction(n)
    \/ AddAndShadowAll
    \/ Function
    \/ \E ptn \in ScopeNameAccessChains : TranslateNameAccessChain(ptn)
    \/ SetToOuterScope

SpecScope == InitScope /\ [][NextScope]_vars

\* ------------------------------------------------------------------------
\* Warning filter scopes of one module: module_ and function_
\* ------------------------------------------------------------------------
aliasVars == <<new_scope, use_funs, aliases, old_aliases, uses, accesses, resolved,
               scope, functions>>

driverOnly == <<mode, hP, program, until, pc, failure, warnings, live, executed,
                gates, takes, snapshots, emitted, start, numSev, restVars>>

\* module_: flatten_attributes, module_warning_filter, the union with the
\* filter of the package, add_warning_filter_scope
ModuleFilterScope ==
    /\ epc = "attributes"
    /\ LET f  == module_warning_filter(is_source_definition, package_config, attributes)
           wf == f.filters \cup package_config.warning_filter
       IN
       /\ diags' = add_diags(diags, f.diags)
       /\ warning_filter_scopes' = Append(warning_filter_scopes, wf)
       /\ warning_filter' = wf
    /\ epc' = "module"
    /\ UNCHANGED <<is_source_definition, attributes, package_config, aliasVars, driverOnly>>

\* function_: warning_filter on the function's attributes and
\* add_warning_filter_scope
FunctionFilterScope(attr) ==
    /\ epc = "module"
    /\ LET f == warning_filter_(attr) IN
       /\ diags' = add_diags(diags, f.diags)
       /\ warning_filter_scopes' = Append(warning_filter_scopes, f.filters)
    /\ epc' = "function"
    /\ UNCHANGED <<is_source_definition, attributes, package_config, warning_filter,
                   aliasVars, driverOnly>>

\* function_ and module_: context.env.pop_warning_filter_scope()
PopWarningFilterScope ==
    /\ epc \in {"function", "members_done"}
    /\ warning_filter_scopes' = SubSeq(warning_filter_scopes, 1, Len(warning_filter_scopes) - 1)
    /\ epc' = IF epc = "function" THEN "members_done" ELSE "module_done"
    /\ UNCHANGED <<diags, is_source_definition, attributes, package_config, warning_filter,
                   aliasVars, driverOnly>>

\* module_ entered for a source or dependency definition of a source or
\* dependency package, with any allow attribute
InitFilter ==
    /\ mode = "stepped"
    /\ hP = PASS_PARSER
    /\ program = PassResult(PASS_PARSER, <<>>, <<>>)
    /\ until = PASS_EXPANSION
    /\ pc = "run"
    /\ diags = <<>>
    /\ failure = <<>>
    /\ warnings = <<>>
    /\ live = {PASS_PARSER}
    /\ executed = <<>>
    /\ gates = <<>>
    /\ takes = <<>>
    /\ snapshots = <<>>
    /\ emitted = <<>>
    /\ start = [P |-> hP, program |-> program, diags |-> diags]
    /\ numSev = NonblockingError
    /\ epc = "attributes"
    /\ is_source_definition \in BOOLEAN
    /\ new_scope = AliasMapBuilder_new
    /\ use_funs = {}
    /\ aliases = AliasMap_new
    /\ old_aliases = AliasMap_new
    /\ uses = <<>>
    /\ accesses = <<>>
    /\ resolved = <<>>
    /\ scope = "module"
    /\ functions = <<>>
    /\ attributes \in AllowAttrs
    /\ package_config \in [is_dependency : BOOLEAN,
                           warning_filter : {{}, filter_from_str("unused", "allow")}]
    /\ warning_filter_scopes = <<>>
    /\ warning_filter = {}
    /\ IdleRest

NextFilter ==
    \/ ModuleFilterScope
    \/ \E attr \in {[value |-> "None", inner |-> <<>>],
                    [value |-> "Parameterized", inner |-> <<[form |-> "Name", name |-> "unused"]>>],
                    [value |-> "Parameterized", inner |-> <<[form |-> "Name", name |-> "bogus"]>>]} :
          FunctionFilterScope(attr)
    \/ PopWarningFilterScope

SpecFilter == InitFilter /\ [][NextFilter]_vars

\* ------------------------------------------------------------------------
\* Expansion of a program: program, definition, module, script (translate.rs)
\* ------------------------------------------------------------------------
MaxSourceDefs == 3
MaxLibDefs == 2

\* a parsed definition. An address block is the sequence of its modules.
ModuleDefinition(mident, loc) ==
    [kind |-> "Module", mident |-> mident, function_name |-> NoName, loc |-> loc]
ScriptDefinition(n, loc) ==
    [kind |-> "Script", mident |-> NoIdent, function_name |-> n, loc |-> loc]

\* the definitions of the model, before their locations are known
SourceDefinitionShapes ==
    {ModuleDefinition(m, NoLoc) : m \in {ModuleIdent_(1, "M"), ModuleIdent_(2, "M")}}
        \cup {ScriptDefinition(n, NoLoc) : n \in {"f", "f_0"}}

LibDefinitionShapes ==
    {ModuleDefinition(m, NoLoc) : m \in {ModuleIdent_(1, "M"), ModuleIdent_(2, "M")}}
        \cup {ScriptDefinition("f", NoLoc)}

\* every definition has a location of its own: base + its index
Located(defs, base) ==
    [i \in 1..Len(defs) |-> [defs[i] EXCEPT !.loc = base + i]]

\* UniqueMap::add: Err((key, old_loc)) when the key is bound, the map unchanged
UniqueMap_add(map, key, loc, is_source_module) ==
    IF \E e \in map : e.key = key
    THEN [ok |-> FALSE, map |-> map, old_loc |-> (CHOOSE e \in map : e.key = key).loc]
    ELSE [ok |-> TRUE, old_loc |-> NoLoc,
          map |-> map \cup {[key |-> key, loc |-> loc, is_source_module |-> is_source_module]}]

\* duplicate_module: Declarations::DuplicateItem at the module's location,
\* with the location of the definition already in the map
duplicate_module(mident, loc, old_loc) ==
    diag(NonblockingError, "DuplicateModule", loc, old_loc, mident.module)

\* module: module_, then module_map.add, a duplicate reported and dropped
module(map, d, is_source) ==
    LET r == UniqueMap_add(map, d.mident, d.loc, is_source) IN
    [map |-> r.map,
     diags |-> IF r.ok THEN <<>> ELSE <<duplicate_module(d.mident, d.loc, r.old_loc)>>]

definition_KeepLibScripts(is_source, map, ss, d) ==
    IF d.kind = "Module"
    THEN LET r == module(map, d, is_source) IN
         [map |-> r.map, scripts |-> ss, diags |-> r.diags]
    ELSE [map |-> map, scripts |-> Append(ss, [function_name |-> d.function_name, loc |-> d.loc]),
          diags |-> <<>>]

\* definition: a module goes to the module map, a script of a source
\* definition to the scripts, a script of a library definition nowhere
definition(is_source, map, ss, d) ==
    IF d.kind = "Module"
    THEN LET r == module(map, d, is_source) IN
         [map |-> r.map, scripts |-> ss, diags |-> r.diags]
    ELSE IF ~is_source
    THEN [map |-> map, scripts |-> ss, diags |-> <<>>]
    ELSE [map |-> map, scripts |-> Append(ss, [function_name |-> d.function_name, loc |-> d.loc]),
          diags |-> <<>>]

\* the identities of the model in the order of the keys of a UniqueMap
ModuleIdents == <<ModuleIdent_(1, "M"), ModuleIdent_(2, "M")>>

merge_lib_modules_KeepLib(shadow, smap, lmap, i) ==
    [map |-> {e \in smap : \A l \in lmap : e.key # l.key} \cup lmap, diags |-> <<>>]

RECURSIVE merge_lib_modules(_, _, _, _)

\* program's loop over lib_module_map: source_module_map.add, and
\* duplicate_module on a collision unless sources shadow dependencies
merge_lib_modules(shadow, smap, lmap, i) ==
    IF i > Len(ModuleIdents) THEN [map |-> smap, diags |-> <<>>]
    ELSE LET here == {e \in lmap : e.key = ModuleIdents[i]}
         IN IF here = {} THEN merge_lib_modules(shadow, smap, lmap, i + 1)
            ELSE LET l    == CHOOSE e \in here : TRUE
                     r    == UniqueMap_add(smap, l.key, l.loc, FALSE)
                     rest == merge_lib_modules(shadow, r.map, lmap, i + 1)
                 IN [map |-> rest.map,
                     diags |-> (IF r.ok \/ shadow THEN <<>>
                                ELSE <<duplicate_module(l.key, l.loc, r.old_loc)>>)
                               \o rest.diags]

\* the position of scripts[i] among the scripts of its function name
position(ss, i) ==
    Cardinality({j \in 1..(i - 1) : ss[j].function_name = ss[i].function_name})

\* the key of scripts[i]: its function name when no other script has it,
\* format!("{}_{}", n, i) otherwise
script_key(ss, i) ==
    IF Cardinality({j \in 1..Len(ss) : ss[j].function_name = ss[i].function_name}) = 1
    THEN ss[i].function_name
    ELSE ss[i].function_name \o "_" \o ToString(position(ss, i))

\* the driver inside run_impl's expansion pass, nothing added to the ledger yet
DriverInExpansion ==
    /\ mode = "stepped"
    /\ hP = PASS_PARSER
    /\ program = PassResult(PASS_PARSER, <<>>, <<>>)
    /\ until = PASS_EXPANSION
    /\ pc = "run"
    /\ diags = <<>>
    /\ failure = <<>>
    /\ warnings = <<>>
    /\ live = {PASS_PARSER}
    /\ executed = <<>>
    /\ gates = <<>>
    /\ takes = <<>>
    /\ snapshots = <<>>
    /\ emitted = <<>>
    /\ start = [P |-> hP, program |-> program, diags |-> diags]
    /\ numSev = NonblockingError

driverFrame == <<mode, hP, program, until, pc, failure, warnings, live, executed,
                 gates, takes, snapshots, emitted, start, numSev>>

outsideProgram == <<driverFrame, epc, is_source_definition, aliasVars, filterVars, addressVars,
                    valueVars, interfaceVars, laterVars>>

\* the source definitions, one call of definition each
SourceDefinition ==
    /\ ppc = "sources"
    /\ next_def <= Len(source_definitions)
    /\ LET r == definition(TRUE, source_module_map, scripts, source_definitions[next_def]) IN
       /\ source_module_map' = r.map
       /\ scripts' = r.scripts
       /\ diags' = add_diags(diags, r.diags)
    /\ next_def' = next_def + 1
    /\ UNCHANGED <<ppc, sources_shadow_deps, source_definitions, lib_definitions,
                   lib_module_map, keyed>>
    /\ UNCHANGED outsideProgram

\* context.is_source_definition = false, and after the library definitions
\* context.current_package = None
EndOfDefinitions ==
    /\ \/ ppc = "sources" /\ next_def > Len(source_definitions) /\ ppc' = "libs"
       \/ ppc = "libs" /\ next_def > Len(lib_definitions) /\ ppc' = "merge"
    /\ next_def' = 1
    /\ UNCHANGED <<diags, sources_shadow_deps, source_definitions, lib_definitions,
                   source_module_map, lib_module_map, scripts, keyed>>
    /\ UNCHANGED outsideProgram

\* the library definitions, one call of definition each
LibDefinition ==
    /\ ppc = "libs"
    /\ next_def <= Len(lib_definitions)
    /\ LET r == definition(FALSE, lib_module_map, scripts, lib_definitions[next_def]) IN
       /\ lib_module_map' = r.map
       /\ scripts' = r.scripts
       /\ diags' = add_diags(diags, r.diags)
    /\ next_def' = next_def + 1
    /\ UNCHANGED <<ppc, sources_shadow_deps, source_definitions, lib_definitions,
                   source_module_map, keyed>>
    /\ UNCHANGED outsideProgram

\* the loop that moves lib_module_map into source_module_map
MergeLibModules ==
    /\ ppc = "merge"
    /\ LET r == merge_lib_modules(sources_shadow_deps, source_module_map, lib_module_map, 1) IN
       /\ source_module_map' = r.map
       /\ diags' = add_diags(diags, r.diags)
    /\ lib_module_map' = {}
    /\ ppc' = "scripts"
    /\ UNCHANGED <<sources_shadow_deps, source_definitions, lib_definitions, next_def,
                   scripts, keyed>>
    /\ UNCHANGED outsideProgram

\* collected and keyed: every script under its key; the assert on
\* keyed.insert panics when a key is already taken
KeyScripts ==
    /\ ppc = "scripts"
    /\ IF \E i, j \in 1..Len(scripts) : i # j /\ script_key(scripts, i) = script_key(scripts, j)
       THEN ppc' = "panic" /\ keyed' = {}
       ELSE /\ ppc' = "done"
            /\ keyed' = {[key |-> script_key(scripts, i), script |-> scripts[i]] :
                            i \in 1..Len(scripts)}
    /\ UNCHANGED <<diags, sources_shadow_deps, source_definitions, lib_definitions, next_def,
                   source_module_map, lib_module_map, scripts>>
    /\ UNCHANGED outsideProgram

\* program entered on any parsed program of the model
InitProgram ==
    /\ DriverInExpansion
    /\ IdleExp
    /\ IdleAddress
    /\ IdleValue
    /\ IdleInterface
    /\ IdleLater
    /\ ppc = "sources"
    /\ sources_shadow_deps \in BOOLEAN
    /\ \E ds \in SeqsUpTo(SourceDefinitionShapes, MaxSourceDefs) :
          source_definitions = Located(ds, 10)
    /\ \E ds \in SeqsUpTo(LibDefinitionShapes, MaxLibDefs) :
          lib_definitions = Located(ds, 20)
    /\ next_def = 1
    /\ source_module_map = {}
    /\ lib_module_map = {}
    /\ scripts = <<>>
    /\ keyed = {}

NextProgram ==
    \/ SourceDefinition
    \/ EndOfDefinitions
    \/ LibDefinition
    \/ MergeLibModules
    \/ KeyScripts

SpecProgram == InitProgram /\ [][NextProgram]_vars

\* ------------------------------------------------------------------------
\* Named addresses: compute_address_conflicts and address_ (translate.rs)
\* ------------------------------------------------------------------------
MaxAddressMaps == 2

AddressNames == {"a", "b"}
AccountAddresses == {1, 2}

\* a NamedAddressMap: each name of its domain with its one value
NamedAddressMaps ==
    UNION {[D -> AccountAddresses] : D \in SUBSET AddressNames}

compute_address_conflicts_NamesOnly(pre_compiled_lib, prog_maps) ==
    LET all_addrs == prog_maps \o pre_compiled_lib
        name_to_addr(n) ==
            {all_addrs[i][n] : i \in {j \in 1..Len(all_addrs) : n \in DOMAIN all_addrs[j]}}
    IN {n \in AddressNames : Cardinality(name_to_addr(n)) > 1}

\* compute_address_conflicts: name_to_addr and addr_to_name over the maps of
\* the program chained with those of the pre-compiled library; the names
\* with more than one address and the names of an address with more than
\* one name
compute_address_conflicts(pre_compiled_lib, prog_maps) ==
    LET all_addrs == prog_maps \o pre_compiled_lib
        name_to_addr(n) ==
            {all_addrs[i][n] : i \in {j \in 1..Len(all_addrs) : n \in DOMAIN all_addrs[j]}}
        addr_to_name(a) ==
            {n \in AddressNames :
                \E i \in 1..Len(all_addrs) : n \in DOMAIN all_addrs[i] /\ all_addrs[i][n] = a}
        name_to_addr_conflicts == {n \in AddressNames : Cardinality(name_to_addr(n)) > 1}
        addr_to_name_conflicts ==
            UNION {addr_to_name(a) : a \in {b \in AccountAddresses : Cardinality(addr_to_name(b)) > 1}}
    IN name_to_addr_conflicts \cup addr_to_name_conflicts

\* a P::LeadingNameAccess: an anonymous address or a name
LeadingNameAccesses ==
    {[form |-> "AnonymousAddress", name |-> NoName, bytes |-> a, loc |-> 30] : a \in AccountAddresses}
        \cup {[form |-> "Name", name |-> n, bytes |-> 0, loc |-> 30] :
                 n \in AddressNames \cup {SELF_NAME}}

address_without_value_error(suggest_declaration, loc, n) ==
    diag(NonblockingError, "AddressWithoutValue", loc, NoLoc, n)

\* address_ that reports a name without a value whether or not the name
\* was rejected as restricted
address__ReportsRestricted(conflicts, mapping, suggest_declaration, ln) ==
    LET name_res == IF ln.form = "AnonymousAddress" THEN <<>>
                    ELSE check_restricted_name_all_cases("Address", ln.name, ln.loc)
    IN IF ln.form = "AnonymousAddress"
       THEN [address |-> [kind |-> "Numerical", name |-> NoName, value |-> ln.bytes,
                          name_conflict |-> FALSE],
             diags |-> name_res]
       ELSE IF ln.name \in DOMAIN mapping
       THEN [address |-> [kind |-> "Numerical", name |-> ln.name, value |-> mapping[ln.name],
                          name_conflict |-> ln.name \in conflicts],
             diags |-> name_res]
       ELSE [address |-> [kind |-> "NamedUnassigned", name |-> ln.name, value |-> 0,
                          name_conflict |-> FALSE],
             diags |-> name_res \o
                       <<address_without_value_error(suggest_declaration, ln.loc, ln.name)>>]

\* address_: check_valid_address_name_, then the anonymous address, the
\* value of the name in the mapping with its conflict flag, or the
\* unassigned name
address_(conflicts, mapping, suggest_declaration, ln) ==
    LET name_res == IF ln.form = "AnonymousAddress" THEN <<>>
                    ELSE check_restricted_name_all_cases("Address", ln.name, ln.loc)
    IN IF ln.form = "AnonymousAddress"
       THEN [address |-> [kind |-> "Numerical", name |-> NoName, value |-> ln.bytes,
                          name_conflict |-> FALSE],
             diags |-> name_res]
       ELSE IF ln.name \in DOMAIN mapping
       THEN [address |-> [kind |-> "Numerical", name |-> ln.name, value |-> mapping[ln.name],
                          name_conflict |-> ln.name \in conflicts],
             diags |-> name_res]
       ELSE [address |-> [kind |-> "NamedUnassigned", name |-> ln.name, value |-> 0,
                          name_conflict |-> FALSE],
             diags |-> name_res \o
                       (IF name_res = <<>>
                        THEN <<address_without_value_error(suggest_declaration, ln.loc, ln.name)>>
                        ELSE <<>>)]

outsideAddress == <<driverFrame, epc, is_source_definition, aliasVars, filterVars, programVars,
                    valueVars, interfaceVars, laterVars>>

\* program: compute_address_conflicts, kept in the Context
ComputeAddressConflicts ==
    /\ apc = "start"
    /\ address_conflicts' = compute_address_conflicts(pre_compiled_maps, named_address_maps)
    /\ apc' = "context"
    /\ UNCHANGED <<diags, named_address_maps, pre_compiled_maps, named_address_mapping, address>>
    /\ UNCHANGED outsideAddress

\* program: context.named_address_mapping = Some(named_address_maps.get(..))
\* for the package definition at hand; all_module_members: the map of the
\* definition, one of the pre-compiled library's for its definitions
SetNamedAddressMapping(i) ==
    /\ apc = "context"
    /\ i \in 1..Len(named_address_maps \o pre_compiled_maps)
    /\ named_address_mapping' = i
    /\ apc' = "mapped"
    /\ UNCHANGED <<diags, named_address_maps, pre_compiled_maps, address_conflicts, address>>
    /\ UNCHANGED outsideAddress

\* address: address_ with the conflicts and the mapping of the Context
Address(suggest_declaration, ln) ==
    /\ apc = "mapped"
    /\ LET r == address_(address_conflicts,
                         (named_address_maps \o pre_compiled_maps)[named_address_mapping],
                         suggest_declaration, ln)
       IN /\ address' = r.address
          /\ diags' = add_diags(diags, r.diags)
    /\ apc' = "resolved"
    /\ UNCHANGED <<named_address_maps, pre_compiled_maps, address_conflicts,
                   named_address_mapping>>
    /\ UNCHANGED outsideAddress

\* program entered with any named address maps, with or without a
\* pre-compiled library
InitAddress ==
    /\ DriverInExpansion
    /\ IdleExp
    /\ IdleProgram
    /\ IdleValue
    /\ IdleInterface
    /\ IdleLater
    /\ apc = "start"
    /\ named_address_maps \in SeqsUpTo(NamedAddressMaps, MaxAddressMaps)
    /\ pre_compiled_maps \in SeqsUpTo(NamedAddressMaps, 1)
    /\ address_conflicts = {}
    /\ named_address_mapping = 0
    /\ address = NoAddress

NextAddress ==
    \/ ComputeAddressConflicts
    \/ \E i \in 1..(MaxAddressMaps + 1) : SetNamedAddressMapping(i)
    \/ \E sd \in BOOLEAN, ln \in LeadingNameAccesses : Address(sd, ln)

SpecAddress == InitAddress /\ [][NextAddress]_vars

\* ------------------------------------------------------------------------
\* One integer literal: exp_ on PE::Value, value (translate.rs)
\* ------------------------------------------------------------------------
Suffixes == {"", "u8", "u16", "u32", "u64", "u128", "u256"}

\* 0, 1, and around the maximum of every width
NumValues == {Num(e, m) : e \in {0, 8, 16, 32, 64, 128, 256}, m \in {0, 1}}

\* exp_: PE::Value(pv) => match value(context, pv): EE::Value(v) for
\* Some(v), EE::UnresolvedError for None
ExpValue ==
    /\ vpc = "value"
    /\ LET r == value(pvalue, numSev, PASS_EXPANSION) IN
       /\ diags' = add_diags(diags, r.diag)
       /\ evalue' = [some |-> r.some, value |-> r.value]
       /\ eexp' = IF r.some THEN "Value" ELSE "UnresolvedError"
    /\ vpc' = "done"
    /\ UNCHANGED pvalue
    /\ UNCHANGED <<driverFrame, epc, is_source_definition, aliasVars, filterVars, programVars,
                   addressVars, interfaceVars, laterVars>>

\* exp_ entered on any integer literal of the model
InitValue ==
    /\ DriverInExpansion
    /\ IdleExp
    /\ IdleProgram
    /\ IdleAddress
    /\ IdleInterface
    /\ IdleLater
    /\ vpc = "value"
    /\ pvalue \in [suffix : Suffixes, v : NumValues]
    /\ evalue = [some |-> FALSE, value |-> NoValue]
    /\ eexp = "None"

NextValue == ExpValue

SpecValue == InitValue /\ [][NextValue]_vars

\* ------------------------------------------------------------------------
\* Interface files of compiled dependencies: generate_interface_files
\* (compiler.rs), run by several compilations on one interface directory
\* ------------------------------------------------------------------------
MaxWorkers == 2

Workers == 1..MaxWorkers

\* the lists of compiled modules a dependency set may hold; module k is
\* the file k.mv
MvFileLists == {<<>>, <<1>>, <<1, 2>>}

\* the named-address tables a compilation may be given
NamedAddressTables == {"named", "numerical"}

Absent == [module |-> 0, named |-> "none"]

\* interface_generator::write_file_to_string: the interface of the module,
\* written with the names module_to_named_address gives its addresses
write_file_to_string(named, mv_file) == [module |-> mv_file, named |-> named]

\* file_path: all_addr_dir / id.address() / id.name() .move; all_addr_dir is
\* the directory of the hash of the contents of mv_files
file_path(files, mv_file) == [dir |-> Len(files), file |-> mv_file]

already_cached_Never(by_hash, file) == FALSE

\* separate_by_hash && Path::new(&file_path).is_file()
already_cached(by_hash, file) == by_hash /\ file # Absent

\* the step after `continue` or after the rename: the next file, or Ok(result)
NextFile(w) ==
    IF worker[w].file < Len(mv_files)
    THEN [file |-> worker[w].file + 1, at |-> "check"]
    ELSE [file |-> worker[w].file, at |-> "done"]

outsideInterface == <<diags, driverFrame, epc, is_source_definition, aliasVars, filterVars,
                      programVars, addressVars, valueVars, laterVars>>

\* mv_files.is_empty(): return Ok(vec![])
NoMvFiles(w) ==
    /\ worker[w].at = "start"
    /\ mv_files = <<>>
    /\ worker' = [worker EXCEPT ![w] = [file |-> 0, at |-> "done"]]
    /\ UNCHANGED <<separate_by_hash, module_to_named_address, mv_files, disk, tmp, result,
                   renames, passed, discarded>>
    /\ UNCHANGED outsideInterface

\* the hash of the contents of mv_files, then the loop is entered
EnterLoop(w) ==
    /\ worker[w].at = "start"
    /\ mv_files # <<>>
    /\ worker' = [worker EXCEPT ![w] = [file |-> 1, at |-> "check"]]
    /\ UNCHANGED <<separate_by_hash, module_to_named_address, mv_files, disk, tmp, result,
                   renames, passed, discarded>>
    /\ UNCHANGED outsideInterface

\* write_file_to_string, result.push, and the first check of the file
FirstCheck(w) ==
    /\ worker[w].at = "check"
    /\ LET f == mv_files[worker[w].file] IN
       /\ result' = [result EXCEPT ![w] = Append(@, file_path(mv_files, f))]
       /\ worker' = [worker EXCEPT ![w] =
                        IF already_cached(separate_by_hash, disk[f]) THEN NextFile(w)
                        ELSE [file |-> worker[w].file, at |-> "write"]]
    /\ UNCHANGED <<separate_by_hash, module_to_named_address, mv_files, disk, tmp, renames,
                   passed, discarded>>
    /\ UNCHANGED outsideInterface

\* the temporary file from its creation until write_all has returned
Partial(mv_file) == [module |-> mv_file, named |-> "partial"]

\* a compilation that creates and writes the file at file_path itself
CreateTemporary_AtTarget(w) ==
    /\ worker[w].at = "write"
    /\ LET f == mv_files[worker[w].file] IN
       /\ tmp' = [tmp EXCEPT ![w] = Partial(f)]
       /\ disk' = [disk EXCEPT ![f] = Partial(f)]
    /\ worker' = [worker EXCEPT ![w].at = "write_all"]
    /\ UNCHANGED <<separate_by_hash, module_to_named_address, mv_files, result, renames,
                   passed, discarded>>
    /\ UNCHANGED outsideInterface

\* create_dir_all, NamedTempFile::new_in(addr_dir): a file of the
\* compilation's own in the directory of the target
CreateTemporary(w) ==
    /\ worker[w].at = "write"
    /\ LET f == mv_files[worker[w].file] IN
       tmp' = [tmp EXCEPT ![w] = Partial(f)]
    /\ worker' = [worker EXCEPT ![w].at = "write_all"]
    /\ UNCHANGED <<separate_by_hash, module_to_named_address, mv_files, disk, result, renames,
                   passed, discarded>>
    /\ UNCHANGED outsideInterface

\* tmp.write_all(interface_contents.as_bytes()) has returned
WriteTemporary(w) ==
    /\ worker[w].at = "write_all"
    /\ LET f == mv_files[worker[w].file] IN
       tmp' = [tmp EXCEPT ![w] = write_file_to_string(module_to_named_address, f)]
    /\ worker' = [worker EXCEPT ![w].at = "recheck"]
    /\ UNCHANGED <<separate_by_hash, module_to_named_address, mv_files, disk, result, renames,
                   passed, discarded>>
    /\ UNCHANGED outsideInterface

SecondCheck_Skipped(w) ==
    /\ worker[w].at = "recheck"
    /\ worker' = [worker EXCEPT ![w].at = "rename"]
    /\ UNCHANGED <<separate_by_hash, module_to_named_address, mv_files, disk, result, renames,
                   tmp, passed, discarded>>
    /\ UNCHANGED outsideInterface

\* the second check of the file; `continue` drops the NamedTempFile, which
\* deletes it
SecondCheck(w) ==
    /\ worker[w].at = "recheck"
    /\ LET f == mv_files[worker[w].file] IN
       IF already_cached(separate_by_hash, disk[f])
       THEN /\ tmp' = [tmp EXCEPT ![w] = Absent]
            /\ worker' = [worker EXCEPT ![w] = NextFile(w)]
            /\ discarded' = [discarded EXCEPT ![f] = @ \cup {w}]
            /\ UNCHANGED passed
       ELSE /\ worker' = [worker EXCEPT ![w].at = "rename"]
            /\ passed' = [passed EXCEPT ![f] = @ \cup {w}]
            /\ UNCHANGED <<tmp, discarded>>
    /\ UNCHANGED <<separate_by_hash, module_to_named_address, mv_files, disk, result, renames>>
    /\ UNCHANGED outsideInterface

\* std::fs::rename(tmp.path(), file_path): the temporary replaces whatever
\* is at the path
Rename(w) ==
    /\ worker[w].at = "rename"
    /\ LET f == mv_files[worker[w].file] IN
       /\ disk' = [disk EXCEPT ![f] = tmp[w]]
       /\ renames' = [renames EXCEPT ![f] = Append(@, w)]
    /\ tmp' = [tmp EXCEPT ![w] = Absent]
    /\ worker' = [worker EXCEPT ![w] = NextFile(w)]
    /\ UNCHANGED <<separate_by_hash, module_to_named_address, mv_files, result, passed,
                   discarded>>
    /\ UNCHANGED outsideInterface

\* the compilations start on an interface directory that is absent or that
\* earlier compilations of the same compiled modules have filled, wholly or
\* in part, each with the named-address table it was given
InitInterface ==
    /\ DriverInExpansion
    /\ IdleExp
    /\ IdleProgram
    /\ IdleAddress
    /\ IdleValue
    /\ IdleLater
    /\ separate_by_hash \in BOOLEAN
    /\ module_to_named_address \in NamedAddressTables
    /\ mv_files \in MvFileLists
    /\ disk \in {d \in [1..2 -> {Absent} \cup {write_file_to_string(n, k) :
                                                n \in NamedAddressTables, k \in 1..2}] :
                  \A k \in 1..2 : d[k] # Absent => d[k].module = k /\ k \in Range(mv_files)}
    /\ worker = [w \in Workers |-> [file |-> 0, at |-> "start"]]
    /\ tmp = [w \in Workers |-> Absent]
    /\ result = [w \in Workers |-> <<>>]
    /\ renames = [k \in 1..2 |-> <<>>]
    /\ passed = [k \in 1..2 |-> {}]
    /\ discarded = [k \in 1..2 |-> {}]

NextInterface ==
    \E w \in Workers :
        \/ NoMvFiles(w)
        \/ EnterLoop(w)
        \/ FirstCheck(w)
        \/ CreateTemporary(w)
        \/ WriteTemporary(w)
        \/ SecondCheck(w)
        \/ Rename(w)

SpecInterface == InitInterface /\ [][NextInterface]_vars

\* ------------------------------------------------------------------------
\* The module-member index: all_module_members, module_members (translate.rs)
\* ------------------------------------------------------------------------
MaxIndexSources == 1

\* a P::ModuleMember: a function, a constant, a struct, a spec block on a
\* schema, on the module (with the functions it declares) or on something
\* else, a use or a friend declaration
Member(form, n) == [form |-> form, name |-> n]

\* the member lists of the modules of the model
MemberLists ==
    {<<Member("Function", "f")>>,
     <<Member("Use", "f"), Member("Constant", "f"), Member("SpecModule", "g")>>,
     <<Member("Function", "g"), Member("SpecSchema", "S"), Member("Struct", "T"),
       Member("SpecOther", "f"), Member("Friend", "M")>>}

\* the definitions a package may hold: the modules, and a script
IndexDefinitions ==
    {[kind |-> "Module", mident |-> m, function_name |-> NoName, loc |-> NoLoc, members |-> l] :
        m \in {ModuleIdent_(1, "M"), ModuleIdent_(2, "M")}, l \in MemberLists}
      \cup {[kind |-> "Script", mident |-> NoIdent, function_name |-> "f", loc |-> NoLoc,
             members |-> <<>>]}

\* cur_members.insert(name, kind)
insert(cur, n, kind) ==
    [x \in DOMAIN cur \cup {n} |-> IF x = n THEN kind ELSE cur[x]]

\* the loop of module_members over m.members
RECURSIVE insert_members(_, _)
insert_members(cur, mems) ==
    IF mems = <<>> THEN cur
    ELSE LET mem == Head(mems)
             next == CASE mem.form \in {"Function", "Constant", "Struct"} ->
                             insert(cur, mem.name, mem.form)
                       [] mem.form = "SpecSchema" -> insert(cur, mem.name, "Schema")
                       [] mem.form = "SpecModule" -> insert(cur, mem.name, "Function")
                       [] OTHER -> cur
         IN insert_members(next, Tail(mems))

module_members_AlwaysAdd(index, always_add, m) ==
    [k \in DOMAIN index \cup {m.mident} |->
        IF k = m.mident
        THEN insert_members(IF k \in DOMAIN index THEN index[k] ELSE <<>>, m.members)
        ELSE index[k]]

\* module_members: nothing when the module is in the index and always_add
\* is not set; otherwise the entry of the module, removed from the index or
\* empty, with the members of the module inserted, added again
module_members_(index, always_add, m) ==
    IF ~always_add /\ m.mident \in DOMAIN index THEN index
    ELSE [k \in DOMAIN index \cup {m.mident} |->
             IF k = m.mident
             THEN insert_members(IF k \in DOMAIN index THEN index[k] ELSE <<>>, m.members)
             ELSE index[k]]

\* all_module_members: module_members for every module of the definitions,
\* in order; scripts have no members
RECURSIVE all_module_members(_, _, _)
all_module_members(index, always_add, defs) ==
    IF defs = <<>> THEN index
    ELSE all_module_members(
             IF Head(defs).kind = "Module" THEN module_members_(index, always_add, Head(defs))
             ELSE index,
             always_add, Tail(defs))

outsideMembers == <<diags, driverFrame, epc, is_source_definition, aliasVars, filterVars,
                    addressVars, valueVars, interfaceVars, ppc, sources_shadow_deps,
                    source_module_map, lib_module_map, scripts, keyed, walkVars,
                    unboundVars, attributeVars, formVars, declVars, resumeVars>>

\* program: all_module_members on the source definitions and on the library
\* definitions, both with always_add, then on the source definitions of the
\* pre-compiled library without it; Context::new takes the index
CollectMembers ==
    /\ \/ /\ mpc = "source"
          /\ members' = all_module_members(members, TRUE, source_definitions)
          /\ mpc' = "lib"
       \/ /\ mpc = "lib"
          /\ members' = all_module_members(members, TRUE, lib_definitions)
          /\ mpc' = "pre_compiled"
       \/ /\ mpc = "pre_compiled"
          /\ members' = all_module_members(members, FALSE, pre_compiled_definitions)
          /\ mpc' = "translate"
    /\ UNCHANGED <<source_definitions, lib_definitions, pre_compiled_definitions, next_def,
                   resolved_use>>
    /\ UNCHANGED outsideMembers

\* the definitions program translates, the source ones first
Translated == source_definitions \o lib_definitions

TranslateDefinition_SeenSoFar(mident, member) ==
    /\ mpc = "translate"
    /\ next_def <= Len(Translated)
    /\ LET seen == all_module_members(<<>>, TRUE, SubSeq(Translated, 1, next_def)) IN
       resolved_use' =
          IF mident \notin DOMAIN seen
          THEN [mident |-> mident, member |-> member, module |-> FALSE, kind |-> "None"]
          ELSE [mident |-> mident, member |-> member, module |-> TRUE,
                kind |-> IF member \in DOMAIN seen[mident] THEN seen[mident][member]
                         ELSE "None"]
    /\ next_def' = next_def + 1
    /\ UNCHANGED <<source_definitions, lib_definitions, pre_compiled_definitions, members, mpc>>
    /\ UNCHANGED outsideMembers

\* definition on the next definition, which holds the use declaration
\* `use mident::{member}`: module_use looks the module up in
\* context.module_members, then the member in the module's entry
TranslateDefinition(mident, member) ==
    /\ mpc = "translate"
    /\ next_def <= Len(Translated)
    /\ resolved_use' =
          IF mident \notin DOMAIN members
          THEN [mident |-> mident, member |-> member, module |-> FALSE, kind |-> "None"]
          ELSE [mident |-> mident, member |-> member, module |-> TRUE,
                kind |-> IF member \in DOMAIN members[mident] THEN members[mident][member]
                         ELSE "None"]
    /\ next_def' = next_def + 1
    /\ UNCHANGED <<source_definitions, lib_definitions, pre_compiled_definitions, members, mpc>>
    /\ UNCHANGED outsideMembers

\* program entered on source, library and pre-compiled definitions
InitMembers ==
    /\ DriverInExpansion
    /\ IdleExp
    /\ IdleAddress
    /\ IdleValue
    /\ IdleInterface
    /\ ppc = "idle"
    /\ sources_shadow_deps = FALSE
    /\ source_module_map = {}
    /\ lib_module_map = {}
    /\ scripts = <<>>
    /\ keyed = {}
    /\ next_def = 1
    /\ \E ds \in SeqsUpTo(IndexDefinitions, MaxIndexSources) : source_definitions = Located(ds, 10)
    /\ \E ds \in SeqsUpTo(IndexDefinitions, 1) : lib_definitions = Located(ds, 20)
    /\ \E ds \in SeqsUpTo(IndexDefinitions, 1) : pre_compiled_definitions = Located(ds, 30)
    /\ mpc = "source"
    /\ members = <<>>
    /\ resolved_use = NoUse
    /\ IdleWalk
    /\ IdleUnbound
    /\ IdleAttributes
    /\ IdleForms
    /\ IdleDecl
    /\ IdleResume

NextMembers ==
    \/ CollectMembers
    \/ \E a \in {1, 2}, n \in {"f", "g"} : TranslateDefinition(ModuleIdent_(a, "M"), n)

SpecMembers == InitMembers /\ [][NextMembers]_vars

\* ------------------------------------------------------------------------
\* The translators of one definition and the scopes they open and close:
\* module_, script_, struct_def_, constant_, function_, spec, spec_member,
\* sequence (translate.rs)
\* ------------------------------------------------------------------------
MaxScopes == 5

\* what uses() hands to add_and_shadow_all: no alias, or a member alias
\* and a module alias
UsesBuilders ==
    {AliasMapBuilder_new,
     add_module_alias(
         add_member_alias(AliasMapBuilder_new, "A", 1, ModuleIdent_(1, "M"), "f").acc,
         "N", 2, ModuleIdent_(1, "M")).acc}

\* the type parameter lists of a declaration
TypeParameters == {{}, {"A"}}

\* an optional type parameter list: of a spec condition kind, of the
\* signature of a spec block's member target
NoTypeParameters == [some |-> FALSE, names |-> {}]

OptTypeParameters ==
    {NoTypeParameters} \cup {[some |-> TRUE, names |-> tps] : tps \in TypeParameters}

\* the allow attributes of the declarations walked
WalkAttrs ==
    {[value |-> "None", inner |-> <<>>],
     [value |-> "Parameterized", inner |-> <<[form |-> "Name", name |-> "unused"]>>]}

Bindings(am) == [modules |-> am.modules, members |-> am.members]

\* AliasMap::shadow_for_type_parameters: the member aliases named like a
\* type parameter are hidden; returns the map as it was
shadow_for_type_parameters(am, tps) ==
    [aliases |-> [am EXCEPT !.members = {e \in @ : e.alias \notin tps}],
     old |-> am]

SomeOld(am) == [some |-> TRUE, map |-> am]
NoOld == [some |-> FALSE, map |-> AliasMap_new]

Top == frames[Len(frames)]

Around == [aliases |-> Bindings(aliases), depth |-> Len(warning_filter_scopes)]

Frame(t, old) == [translator |-> t, old_aliases |-> old, before |-> Around]

outsideWalk == <<driverFrame, epc, new_scope, use_funs, old_aliases, uses, accesses,
                 resolved, scope, functions, programVars,
                 addressVars, valueVars, interfaceVars, memberVars, unboundVars,
                 attributeVars, formVars, declVars, resumeVars>>

\* module_ and script_: the filter of the definition's attributes that
\* stands alone, without the default filters of the package
definition_warning_filter_OwnOnly(t, is_source, config, attr) ==
    IF t = "module_" THEN module_warning_filter(is_source, config, attr)
    ELSE warning_filter_(attr)

\* module_ and script_: module_warning_filter for a module, warning_filter
\* for a script, then warning_filter.union(&config.warning_filter)
definition_warning_filter(t, is_source, config, attr) ==
    LET f == IF t = "module_" THEN module_warning_filter(is_source, config, attr)
             ELSE warning_filter_(attr)
    IN [filters |-> f.filters \cup config.warning_filter, diags |-> f.diags]

\* definition: module_ or script_ up to the translation of the members. The
\* filter scope is pushed first, then the aliases of the use declarations
\* (and Self for a module) with the assertion that none was bound before
Definition(t, is_source, config, attr, acc) ==
    /\ wpc = "walk"
    /\ frames = <<>>
    /\ entered < MaxScopes
    /\ t \in {"module_", "script_"}
    /\ t = "script_" => is_source
    /\ LET f  == definition_warning_filter(t, is_source, config, attr)
           wf == f.filters
           r  == add_and_shadow_all(
                     aliases,
                     IF t = "module_" THEN module_self_aliases(acc, current_module) ELSE acc)
       IN
       /\ diags' = add_diags(diags, f.diags)
       /\ warning_filter_scopes' = Append(warning_filter_scopes, wf)
       /\ aliases' = r.aliases
       /\ frames' = Append(frames, Frame(t, SomeOld(r.old)))
       /\ wpc' = IF OldAliasMap_is_empty(r.old) THEN "walk" ELSE "ice_aliases"
       /\ warning_filter' = wf
    /\ attributes' = attr
    /\ is_source_definition' = is_source
    /\ package_config' = config
    /\ entered' = entered + 1
    /\ UNCHANGED <<in_spec_context, last_left>>
    /\ UNCHANGED outsideWalk

\* struct_def_, constant_, function_ up to the translation of what they
\* hold: the filter scope of the declaration's attributes, then the type
\* parameters of a struct or of a function signature
Declaration(t, attr, tps) ==
    /\ wpc = "walk"
    /\ frames # <<>>
    /\ entered < MaxScopes
    /\ \/ t = "struct_def_" /\ Top.translator = "module_"
       \/ t = "constant_" /\ Top.translator \in {"module_", "script_"} /\ tps = {}
       \/ t = "function_" /\ Top.translator \in {"module_", "script_"}
    /\ LET f == warning_filter_(attr)
           r == shadow_for_type_parameters(aliases, tps)
       IN
       /\ diags' = add_diags(diags, f.diags)
       /\ warning_filter_scopes' = Append(warning_filter_scopes, f.filters)
       /\ aliases' = IF t = "constant_" THEN aliases ELSE r.aliases
       /\ frames' = Append(frames, Frame(t, IF t = "constant_" THEN NoOld ELSE SomeOld(r.old)))
    /\ entered' = entered + 1
    /\ UNCHANGED <<wpc, in_spec_context, last_left, is_source_definition, package_config,
                   attributes, warning_filter>>
    /\ UNCHANGED outsideWalk

\* every function translated with the body it was parsed with
HasBody_AsParsed(i) == TRUE

\* the body of a function that is translated: a dependency module's
\* functions are made native before function() is called
HasBody(i) ==
    frames[i].translator = "function_" =>
        (is_source_definition \/ frames[i - 1].translator = "script_")

\* Scope in which a spec block of an expression is translated in a spec
\* context as well
Scope_SpecInSpec(t, acc, tps) ==
    /\ wpc = "walk"
    /\ frames # <<>>
    /\ entered < MaxScopes
    /\ \/ /\ t = "sequence"
          /\ Top.translator \in {"function_", "constant_", "sequence", "spec_member"}
          /\ HasBody(Len(frames))
          /\ tps = NoTypeParameters
          /\ LET r == add_and_shadow_all(aliases, acc) IN
             /\ aliases' = r.aliases
             /\ frames' = Append(frames, Frame(t, SomeOld(r.old)))
          /\ UNCHANGED in_spec_context
       \/ /\ t = "spec"
          /\ \/ Top.translator \in {"module_", "script_"}
             \/ Top.translator \in {"sequence", "constant_"}
          /\ tps = NoTypeParameters
          /\ LET r == add_and_shadow_all(aliases, acc) IN
             /\ aliases' = r.aliases
             /\ frames' = Append(frames, Frame(t, SomeOld(r.old)))
          /\ in_spec_context' = TRUE
       \/ /\ t = "spec_member"
          /\ Top.translator = "spec"
          /\ acc = AliasMapBuilder_new
          /\ IF ~tps.some
             THEN /\ frames' = Append(frames, Frame(t, NoOld))
                  /\ UNCHANGED aliases
             ELSE LET r == shadow_for_type_parameters(aliases, tps.names) IN
                  /\ aliases' = r.aliases
                  /\ frames' = Append(frames, Frame(t, SomeOld(r.old)))
          /\ UNCHANGED in_spec_context
    /\ entered' = entered + 1
    /\ UNCHANGED <<wpc, last_left, diags, warning_filter_scopes, is_source_definition,
                   package_config, attributes, warning_filter>>
    /\ UNCHANGED outsideWalk

\* sequence, spec and spec_member up to the translation of what they hold.
\* A sequence is a function body or a block of an expression; a spec block
\* is a member of a module or script, or an expression outside a spec
\* context; a spec member shadows for its type parameters, if it has any
Scope(t, acc, tps) ==
    /\ wpc = "walk"
    /\ frames # <<>>
    /\ entered < MaxScopes
    /\ \/ /\ t = "sequence"
          /\ Top.translator \in {"function_", "constant_", "sequence", "spec_member"}
          /\ HasBody(Len(frames))
          /\ tps = NoTypeParameters
          /\ LET r == add_and_shadow_all(aliases, acc) IN
             /\ aliases' = r.aliases
             /\ frames' = Append(frames, Frame(t, SomeOld(r.old)))
          /\ UNCHANGED in_spec_context
       \/ /\ t = "spec"
          /\ \/ Top.translator \in {"module_", "script_"}
             \/ Top.translator \in {"sequence", "constant_"} /\ ~in_spec_context
          /\ tps = NoTypeParameters
          /\ LET r == add_and_shadow_all(aliases, acc) IN
             /\ aliases' = r.aliases
             /\ frames' = Append(frames, Frame(t, SomeOld(r.old)))
          /\ in_spec_context' = TRUE
       \/ /\ t = "spec_member"
          /\ Top.translator = "spec"
          /\ acc = AliasMapBuilder_new
          /\ IF ~tps.some
             THEN /\ frames' = Append(frames, Frame(t, NoOld))
                  /\ UNCHANGED aliases
             ELSE LET r == shadow_for_type_parameters(aliases, tps.names) IN
                  /\ aliases' = r.aliases
                  /\ frames' = Append(frames, Frame(t, SomeOld(r.old)))
          /\ UNCHANGED in_spec_context
    /\ entered' = entered + 1
    /\ UNCHANGED <<wpc, last_left, diags, warning_filter_scopes, is_source_definition,
                   package_config, attributes, warning_filter>>
    /\ UNCHANGED outsideWalk

\* the aliases after the set_to_outer_scope of the translator of frame fr
Restored(fr) ==
    IF fr.old_aliases.some
    THEN set_to_outer_scope(is_source_definition, aliases,
                            IF fr.translator \in {"module_", "script_", "sequence"}
                            THEN SomeUseFuns({}) ELSE NoUseFuns({}),
                            fr.old_aliases.map)
    ELSE [aliases |-> aliases, use_funs |-> {}, diags |-> <<>>]

IsDeclaration(t) == t \in {"module_", "script_", "struct_def_", "constant_", "function_"}

\* Leave in which a spec member that shadowed for its type parameters keeps
\* them shadowed
Leave_KeepShadowed(target) ==
    /\ wpc = "walk"
    /\ frames # <<>>
    /\ target.some => Top.translator = "spec"
    /\ LET fr == Top
           r  == IF fr.translator = "spec_member"
                 THEN [aliases |-> aliases, use_funs |-> {}, diags |-> <<>>]
                 ELSE Restored(fr)
           a  == IF ~target.some THEN r.aliases
                 ELSE AliasMap_set_to_outer_scope(
                          shadow_for_type_parameters(r.aliases, target.names).aliases,
                          r.aliases).aliases
           pops == IsDeclaration(fr.translator)
           stack == IF pops /\ warning_filter_scopes # <<>>
                    THEN SubSeq(warning_filter_scopes, 1, Len(warning_filter_scopes) - 1)
                    ELSE warning_filter_scopes
       IN
       /\ aliases' = a
       /\ diags' = add_diags(diags, r.diags)
       /\ warning_filter_scopes' = stack
       /\ wpc' = IF pops /\ warning_filter_scopes = <<>> THEN "ice_filters" ELSE "walk"
       /\ in_spec_context' = IF fr.translator = "spec" THEN FALSE ELSE in_spec_context
       /\ frames' = SubSeq(frames, 1, Len(frames) - 1)
       /\ last_left' = [translator |-> fr.translator, before |-> fr.before, inside |-> Around,
                        after |-> [aliases |-> Bindings(a), depth |-> Len(stack)]]
    /\ UNCHANGED <<entered, is_source_definition, package_config, attributes,
                   warning_filter>>
    /\ UNCHANGED outsideWalk

\* Leave in which constant_ pops no filter scope
Leave_ConstantKeepsFilter(target) ==
    /\ wpc = "walk"
    /\ frames # <<>>
    /\ target.some => Top.translator = "spec"
    /\ LET fr == Top
           r  == Restored(fr)
           a  == IF ~target.some THEN r.aliases
                 ELSE AliasMap_set_to_outer_scope(
                          shadow_for_type_parameters(r.aliases, target.names).aliases,
                          r.aliases).aliases
           pops == IsDeclaration(fr.translator) /\ fr.translator # "constant_"
           stack == IF pops /\ warning_filter_scopes # <<>>
                    THEN SubSeq(warning_filter_scopes, 1, Len(warning_filter_scopes) - 1)
                    ELSE warning_filter_scopes
       IN
       /\ aliases' = a
       /\ diags' = add_diags(diags, r.diags)
       /\ warning_filter_scopes' = stack
       /\ wpc' = IF pops /\ warning_filter_scopes = <<>> THEN "ice_filters" ELSE "walk"
       /\ in_spec_context' = IF fr.translator = "spec" THEN FALSE ELSE in_spec_context
       /\ frames' = SubSeq(frames, 1, Len(frames) - 1)
       /\ last_left' = [translator |-> fr.translator, before |-> fr.before, inside |-> Around,
                        after |-> [aliases |-> Bindings(a), depth |-> Len(stack)]]
    /\ UNCHANGED <<entered, is_source_definition, package_config, attributes,
                   warning_filter>>
    /\ UNCHANGED outsideWalk

\* the rest of the translator entered last: set_to_outer_scope with the
\* old_aliases it holds, if it holds any; for a spec block the flag is
\* reset and the signature of a member target is translated, which shadows
\* for its type parameters and restores at once; a declaration then pops
\* its filter scope, which panics on an empty stack
Leave(target) ==
    /\ wpc = "walk"
    /\ frames # <<>>
    /\ target.some => Top.translator = "spec"
    /\ LET fr == Top
           r  == Restored(fr)
           a  == IF ~target.some THEN r.aliases
                 ELSE AliasMap_set_to_outer_scope(
                          shadow_for_type_parameters(r.aliases, target.names).aliases,
                          r.aliases).aliases
           pops == IsDeclaration(fr.translator)
           stack == IF pops /\ warning_filter_scopes # <<>>
                    THEN SubSeq(warning_filter_scopes, 1, Len(warning_filter_scopes) - 1)
                    ELSE warning_filter_scopes
       IN
       /\ aliases' = a
       /\ diags' = add_diags(diags, r.diags)
       /\ warning_filter_scopes' = stack
       /\ wpc' = IF pops /\ warning_filter_scopes = <<>> THEN "ice_filters" ELSE "walk"
       /\ in_spec_context' = IF fr.translator = "spec" THEN FALSE ELSE in_spec_context
       /\ frames' = SubSeq(frames, 1, Len(frames) - 1)
       /\ last_left' = [translator |-> fr.translator, before |-> fr.before, inside |-> Around,
                        after |-> [aliases |-> Bindings(a), depth |-> Len(stack)]]
    /\ UNCHANGED <<entered, is_source_definition, package_config, attributes,
                   warning_filter>>
    /\ UNCHANGED outsideWalk

\* the expansion pass before the first definition: Context::new
InitWalk ==
    /\ DriverInExpansion
    /\ epc = "idle"
    /\ is_source_definition = FALSE
    /\ new_scope = AliasMapBuilder_new
    /\ use_funs = {}
    /\ aliases = AliasMap_new
    /\ old_aliases = AliasMap_new
    /\ uses = <<>>
    /\ accesses = <<>>
    /\ resolved = <<>>
    /\ scope = "module"
    /\ functions = <<>>
    /\ IdleFilter
    /\ IdleProgram
    /\ IdleAddress
    /\ IdleValue
    /\ IdleInterface
    /\ IdleMembers
    /\ IdleUnbound
    /\ IdleAttributes
    /\ IdleForms
    /\ IdleDecl
    /\ IdleResume
    /\ wpc = "walk"
    /\ frames = <<>>
    /\ in_spec_context = FALSE
    /\ entered = 0
    /\ last_left = NoneLeft

PackageConfigs ==
    {[is_dependency |-> FALSE, warning_filter |-> {}],
     [is_dependency |-> TRUE, warning_filter |-> filter_from_str("unused", "allow")]}

NextWalk ==
    \/ \E t \in {"module_", "script_"}, is_source \in BOOLEAN, config \in PackageConfigs,
          attr \in WalkAttrs, acc \in UsesBuilders :
          Definition(t, is_source, config, attr, acc)
    \/ \E t \in {"struct_def_", "constant_", "function_"}, attr \in WalkAttrs,
          tps \in TypeParameters :
          Declaration(t, attr, tps)
    \/ \E t \in {"sequence", "spec", "spec_member"}, acc \in UsesBuilders,
          tps \in OptTypeParameters :
          Scope(t, acc, tps)
    \/ \E target \in OptTypeParameters : Leave(target)

SpecWalk == InitWalk /\ [][NextWalk]_vars

\* ------------------------------------------------------------------------
\* The unbound names of a spec block: bind_exp_spec, unbound_names_spec_block,
\* unbound_names_exp, unbound_names_sequence_item (translate.rs)
\* ------------------------------------------------------------------------
MaxSpecMembers == 2

\* E::Exp_ and E::SequenceItem_: a tag, the unqualified names of the node
\* (of a Name, of the variables of an LValueList) and the nodes under it
Node(tag, names, args) == [tag |-> tag, names |-> names, args |-> args]

E_Value == Node("Value", <<>>, <<>>)
E_Name(n) == Node("Name", <<n>>, <<>>)
E_BinopExp(el, er) == Node("BinopExp", <<>>, <<el, er>>)
E_Lambda(ls, er) == Node("Lambda", ls, <<er>>)
\* Quant(_, rs, _, None, er): the variables of rs, their ranges, then er
E_Quant(bs, ranges, er) == Node("Quant", bs, Append(ranges, er))
E_Assign(ls, er) == Node("Assign", ls, <<er>>)
E_Block(items) == Node("Block", <<>>, items)
S_Seq(e) == Node("Seq", <<>>, <<e>>)
S_Declare(ls) == Node("Declare", ls, <<>>)
S_Bind(ls, er) == Node("Bind", ls, <<er>>)

Reverse(q) == [i \in 1..Len(q) |-> q[Len(q) + 1 - i]]

RECURSIVE unbound_names_exp(_, _)
RECURSIVE unbound_names_exps(_, _)
RECURSIVE unbound_names_binds_with_range(_, _, _)

\* unbound_names_exps and the .rev().for_each of unbound_names_sequence: the
\* nodes in the order given, each on the set the one before left
unbound_names_exps(unbound, es) ==
    IF es = <<>> THEN unbound
    ELSE unbound_names_exps(unbound_names_exp(unbound, Head(es)), Tail(es))

\* unbound_names_binds_with_range on the pairs as given (the caller
\* reverses): the variable is removed, then the range is scanned
unbound_names_binds_with_range(unbound, bs, ranges) ==
    IF bs = <<>> THEN unbound
    ELSE unbound_names_binds_with_range(
             unbound_names_exp(unbound \ {Head(bs)}, Head(ranges)), Tail(bs), Tail(ranges))

\* unbound_names_exp and unbound_names_sequence_item, on one mutable set
unbound_names_exp(unbound, e) ==
    CASE e.tag = "Value"    -> unbound
      [] e.tag = "Name"     -> unbound \cup {e.names[1]}
      [] e.tag = "BinopExp" -> unbound_names_exp(unbound_names_exp(unbound, e.args[2]), e.args[1])
      [] e.tag = "Lambda"   -> unbound_names_exp(unbound, e.args[1]) \ Range(e.names)
      [] e.tag = "Quant"    ->
            unbound_names_binds_with_range(
                unbound_names_exp(unbound, e.args[Len(e.args)]),
                Reverse(e.names), Reverse(SubSeq(e.args, 1, Len(e.args) - 1)))
      [] e.tag = "Assign"   -> unbound_names_exp(unbound, e.args[1]) \cup Range(e.names)
      [] e.tag = "Block"    -> unbound_names_exps(unbound, Reverse(e.args))
      [] e.tag = "Seq"      -> unbound_names_exp(unbound, e.args[1])
      [] e.tag = "Declare"  -> unbound \ Range(e.names)
      [] e.tag = "Bind"     -> unbound_names_exp(unbound, e.args[1]) \ Range(e.names)

\* E::SpecBlockMember_: a Condition with exp and additional_exps, or a
\* member of another kind
Condition(es) == [kind |-> "Condition", exps |-> es]
OtherMember(es) == [kind |-> "Let", exps |-> es]

\* unbound_names_spec_block: only the expressions of conditions are scanned
RECURSIVE unbound_names_spec_block(_, _)
unbound_names_spec_block(unbound, ms) ==
    IF ms = <<>> THEN unbound
    ELSE unbound_names_spec_block(
             IF Head(ms).kind = "Condition" THEN unbound_names_exps(unbound, Head(ms).exps)
             ELSE unbound,
             Tail(ms))

LocalNames == {E_Name("x"), E_Name("y")}

\* the expressions of the conditions explored
ConditionExps ==
    LocalNames \cup {E_Value}
        \cup {E_Lambda(<<"x">>, b) : b \in LocalNames}
        \cup {E_Quant(<<"x">>, <<r>>, b) : r \in LocalNames, b \in LocalNames}
        \cup {E_Quant(<<"x", "y">>, <<E_Name("y"), E_Name("x")>>, E_Value)}
        \cup {E_Assign(<<"x">>, b) : b \in LocalNames}
        \cup {E_Block(<<S_Bind(<<"x">>, r), S_Seq(b)>>) : r \in LocalNames, b \in LocalNames}
        \cup {E_Block(<<S_Declare(<<"x">>), S_Seq(b)>>) : b \in LocalNames}
        \cup {E_Block(<<S_Seq(b), S_Bind(<<"x">>, E_Value)>>) : b \in LocalNames}
        \cup {E_BinopExp(a, b) : a \in {E_Name("x"), E_Lambda(<<"x">>, E_Name("x"))},
                                 b \in {E_Name("x"), E_Lambda(<<"x">>, E_Name("x"))}}

SpecBlockMembers ==
    {Condition(<<e>>) : e \in ConditionExps}
        \cup {Condition(<<E_Name("y"), e>>) : e \in {E_Name("x"), E_Lambda(<<"y">>, E_Value)}}
        \cup {OtherMember(<<E_Name("y")>>)}

outsideUnbound == <<diags, driverFrame, epc, is_source_definition, aliasVars, filterVars,
                    programVars, addressVars, valueVars, interfaceVars, memberVars, walkVars,
                    attributeVars, formVars, declVars, resumeVars>>

\* exp_ on PE::Spec outside a spec context: bind_exp_spec translates the
\* block and scans it for its unbound names
BindExpSpec ==
    /\ upc = "spec"
    /\ unbound_names' = unbound_names_spec_block({}, espec_block)
    /\ upc' = "bound"
    /\ UNCHANGED espec_block
    /\ UNCHANGED outsideUnbound

\* a spec block in the body of a function, translated by spec()
InitUnbound ==
    /\ DriverInExpansion
    /\ IdleExp
    /\ IdleProgram
    /\ IdleAddress
    /\ IdleValue
    /\ IdleInterface
    /\ IdleMembers
    /\ IdleWalk
    /\ IdleAttributes
    /\ IdleForms
    /\ IdleDecl
    /\ IdleResume
    /\ upc = "spec"
    /\ espec_block \in SeqsUpTo(SpecBlockMembers, MaxSpecMembers)
    /\ unbound_names = {}

NextUnbound == BindExpSpec

SpecUnbound == InitUnbound /\ [][NextUnbound]_vars

\* ------------------------------------------------------------------------
\* The attributes of one declaration: flatten_attributes, unique_attributes,
\* attribute (translate.rs)
\* ------------------------------------------------------------------------
MaxAttributes == 2

\* P::Attribute_: Name(n), Assigned(n, v) or Parameterized(n, attributes);
\* ok says whether attribute_value translates v
PAttribute(form, n, ok, inner) ==
    [form |-> form, name |-> n, loc |-> NoLoc, ok |-> ok, inner |-> inner]

\* E::Attribute_ at loc; inner is the attribute map of a Parameterized
EAttribute(form, n, loc, inner) == [form |-> form, name |-> n, loc |-> loc, inner |-> inner]

\* KnownAttribute::resolve and expected_positions: `test` is known and
\* expected with a function, no other name of the model is known
expected_positions(sym) ==
    IF sym = "test" THEN [known |-> TRUE, positions |-> {"Function"}]
    ELSE [known |-> FALSE, positions |-> {}]

AttributeName(sym) == [known |-> expected_positions(sym).known, sym |-> sym]

\* the loop body that lets the later of two attributes of a name replace
\* the earlier
unique_attribute_KeepLast(acc, attr_pos, is_nested, attr) ==
    LET known == expected_positions(attr.name)
        entry == [key |-> AttributeName(attr.name), loc |-> attr.loc, attr |-> attr]
    IN
    IF known.known /\ is_nested
    THEN [acc EXCEPT !.diags = Append(@, diag(NonblockingError, "InvalidAttribute",
                                              attr.loc, NoLoc, attr.name))]
    ELSE IF known.known /\ attr_pos \notin known.positions
    THEN [acc EXCEPT !.diags = Append(@, diag(NonblockingError, "InvalidAttribute",
                                              attr.loc, attr.loc, attr.name))]
    ELSE IF \E e \in acc.map : e.key = entry.key
    THEN [map |-> {e \in acc.map : e.key # entry.key} \cup {entry},
          diags |-> Append(acc.diags,
                           diag(NonblockingError, "DuplicateItem", attr.loc,
                                (CHOOSE e \in acc.map : e.key = entry.key).loc, attr.name))]
    ELSE [acc EXCEPT !.map = @ \cup {entry}]

\* the loop body that accepts a known attribute wherever it stands
unique_attribute_AnyPosition(acc, attr_pos, is_nested, attr) ==
    LET entry == [key |-> AttributeName(attr.name), loc |-> attr.loc, attr |-> attr] IN
    IF \E e \in acc.map : e.key = entry.key
    THEN [acc EXCEPT !.diags =
             Append(@, diag(NonblockingError, "DuplicateItem", attr.loc,
                            (CHOOSE e \in acc.map : e.key = entry.key).loc, attr.name))]
    ELSE [acc EXCEPT !.map = @ \cup {entry}]

\* unique_attributes, the body of the loop: a known attribute that is
\* nested or stands with a declaration it is not expected with adds its
\* diagnostic and is skipped; attr_map.add keeps the attribute already in
\* the map, and then the diagnostic names both locations
unique_attribute(acc, attr_pos, is_nested, attr) ==
    LET known == expected_positions(attr.name)
        entry == [key |-> AttributeName(attr.name), loc |-> attr.loc, attr |-> attr]
    IN
    IF known.known /\ is_nested
    THEN [acc EXCEPT !.diags = Append(@, diag(NonblockingError, "InvalidAttribute",
                                              attr.loc, NoLoc, attr.name))]
    ELSE IF known.known /\ attr_pos \notin known.positions
    THEN [acc EXCEPT !.diags = Append(@, diag(NonblockingError, "InvalidAttribute",
                                              attr.loc, attr.loc, attr.name))]
    ELSE IF \E e \in acc.map : e.key = entry.key
    THEN [acc EXCEPT !.diags =
             Append(@, diag(NonblockingError, "DuplicateItem", attr.loc,
                            (CHOOSE e \in acc.map : e.key = entry.key).loc, attr.name))]
    ELSE [acc EXCEPT !.map = @ \cup {entry}]

\* unique_attributes: the loop, from an empty map
RECURSIVE unique_attributes_from(_, _, _, _)
unique_attributes_from(acc, attr_pos, is_nested, attrs) ==
    IF attrs = <<>> THEN acc
    ELSE unique_attributes_from(unique_attribute(acc, attr_pos, is_nested, Head(attrs)),
                                attr_pos, is_nested, Tail(attrs))

unique_attributes(attr_pos, is_nested, attrs) ==
    unique_attributes_from([map |-> {}, diags |-> <<>>], attr_pos, is_nested, attrs)

NoAttribute == EAttribute("None", NoName, NoLoc, {})

RECURSIVE attribute(_, _)
RECURSIVE collect_attributes(_, _)

\* attribute: None when attribute_value fails on the value assigned, or
\* when one of the attributes in the parentheses is None; otherwise the
\* attributes in the parentheses go through unique_attributes as nested
attribute(attr_pos, pa) ==
    CASE pa.form = "Name" ->
            [some |-> TRUE, attr |-> EAttribute("Name", pa.name, pa.loc, {}), diags |-> <<>>]
      [] pa.form = "Assigned" ->
            IF pa.ok
            THEN [some |-> TRUE, attr |-> EAttribute("Assigned", pa.name, pa.loc, {}),
                  diags |-> <<>>]
            ELSE [some |-> FALSE, attr |-> NoAttribute,
                  diags |-> <<diag(NonblockingError, "InvalidNumber", pa.loc, NoLoc, pa.name)>>]
      [] pa.form = "Parameterized" ->
            LET r == collect_attributes(attr_pos, pa.inner)
                u == unique_attributes(attr_pos, TRUE, r.attrs)
            IN
            IF r.some
            THEN [some |-> TRUE, attr |-> EAttribute("Parameterized", pa.name, pa.loc, u.map),
                  diags |-> r.diags \o u.diags]
            ELSE [some |-> FALSE, attr |-> NoAttribute, diags |-> r.diags]

\* .map(|a| attribute(..)).collect::<Option<Vec<_>>>(): stops at the first
\* None
collect_attributes(attr_pos, pas) ==
    IF pas = <<>> THEN [some |-> TRUE, attrs |-> <<>>, diags |-> <<>>]
    ELSE LET a == attribute(attr_pos, Head(pas)) IN
         IF ~a.some THEN [some |-> FALSE, attrs |-> <<>>, diags |-> a.diags]
         ELSE LET rest == collect_attributes(attr_pos, Tail(pas)) IN
              [some |-> rest.some, attrs |-> <<a.attr>> \o rest.attrs,
               diags |-> a.diags \o rest.diags]

\* .flat_map(|attr| attribute(..)): every attribute is translated, those
\* that are None are left out
RECURSIVE flat_map_attributes(_, _)
flat_map_attributes(attr_pos, pas) ==
    IF pas = <<>> THEN [attrs |-> <<>>, diags |-> <<>>]
    ELSE LET a    == attribute(attr_pos, Head(pas))
             rest == flat_map_attributes(attr_pos, Tail(pas))
         IN [attrs |-> (IF a.some THEN <<a.attr>> ELSE <<>>) \o rest.attrs,
             diags |-> a.diags \o rest.diags]

\* the attributes in parentheses explored
PName(n) == PAttribute("Name", n, TRUE, <<>>)
PAssigned(n, ok) == PAttribute("Assigned", n, ok, <<>>)
PParameterized(n, inner) == PAttribute("Parameterized", n, TRUE, inner)

InnerLists ==
    {<<>>, <<PName("test")>>, <<PName("foo")>>, <<PAssigned("test", FALSE)>>,
     <<PName("test"), PAssigned("foo", FALSE)>>, <<PAssigned("foo", FALSE), PName("test")>>,
     <<PParameterized("foo", <<PName("test")>>)>>, <<PName("foo"), PName("foo")>>}

\* the attributes of a declaration explored
PAttributes ==
    {PName("test"), PName("foo"), PAssigned("foo", TRUE), PAssigned("test", FALSE)}
        \cup {PParameterized("foo", l) : l \in InnerLists}
        \cup {PParameterized("test", <<PName("foo")>>)}

\* every attribute at its own location: those of a declaration at base + 1,
\* base + 2, ..., those in the parentheses of the attribute at l at 10 * l + 1, ...
RECURSIVE Relocate(_, _)
Relocate(pas, base) ==
    [i \in 1..Len(pas) |->
        [pas[i] EXCEPT !.loc = base + i, !.inner = Relocate(@, 10 * (base + i))]]

outsideAttributes == <<driverFrame, epc, is_source_definition, aliasVars, filterVars,
                       programVars, addressVars, valueVars, interfaceVars, memberVars,
                       walkVars, unboundVars, formVars, declVars, resumeVars>>

\* flatten_attributes on the attributes of a declaration
FlattenAttributes ==
    /\ atpc = "flatten"
    /\ LET all == flat_map_attributes(attr_position, pattributes)
           u   == unique_attributes(attr_position, FALSE, all.attrs)
       IN
       /\ all_attrs' = all.attrs
       /\ attr_map' = u.map
       /\ diags' = add_diags(diags, all.diags \o u.diags)
    /\ atpc' = "done"
    /\ UNCHANGED <<attr_position, pattributes>>
    /\ UNCHANGED outsideAttributes

\* a struct or a function with its attributes, before flatten_attributes
InitAttributes ==
    /\ DriverInExpansion
    /\ IdleExp
    /\ IdleProgram
    /\ IdleAddress
    /\ IdleValue
    /\ IdleInterface
    /\ IdleMembers
    /\ IdleWalk
    /\ IdleUnbound
    /\ IdleForms
    /\ IdleDecl
    /\ IdleResume
    /\ atpc = "flatten"
    /\ attr_position \in {"Function", "Struct"}
    /\ \E pas \in SeqsUpTo(PAttributes, MaxAttributes) : pattributes = Relocate(pas, 0)
    /\ all_attrs = <<>>
    /\ attr_map = {}

NextAttributes == FlattenAttributes

SpecAttributes == InitAttributes /\ [][NextAttributes]_vars

\* ------------------------------------------------------------------------
\* One expression: exp_ and type_ with the forms that depend on the
\* specification context (translate.rs)
\* ------------------------------------------------------------------------
PExp(form, op, subs) == [form |-> form, op |-> op, loc |-> 0, subs |-> subs]

\* P::Exp_ and P::Type_. A Value is a literal that fits its type or one
\* that does not; a Name has type arguments or none; a DotCall has its
\* receiver first, then its arguments
P_Value(op) == PExp("Value", op, <<>>)
P_Name(tys) == PExp("Name", IF tys = <<>> THEN "plain" ELSE "tys", tys)
P_Index(e, i) == PExp("Index", "", <<e, i>>)
P_Lambda(e) == PExp("Lambda", "", <<e>>)
P_Quant(e) == PExp("Quant", "", <<e>>)
P_BinopExp(l, op, r) == PExp("BinopExp", op, <<l, r>>)
P_DotCall(receiver, arg) == PExp("DotCall", "", <<receiver, arg>>)
P_Cast(e, ty) == PExp("Cast", "", <<e, ty>>)
P_Spec == PExp("Spec", "", <<>>)
T_Apply == PExp("Apply", "", <<>>)
T_Fun(res) == PExp("Fun", "", <<res>>)

\* the locations of a tree: the root at loc, the k-th node under a node at
\* l at 10 * l + k
RECURSIVE At(_, _)
At(pe, loc) ==
    [pe EXCEPT !.loc = loc,
               !.subs = [k \in 1..Len(pe.subs) |-> At(pe.subs[k], 10 * loc + k)]]

\* BinOp_::is_spec_only: `==>`, `<==>` and `..`
is_spec_only(op) == op \in {"==>", "<==>", ".."}

UnresolvedError(loc) == [form |-> "UnresolvedError", op |-> "", loc |-> loc, subs |-> <<>>]

SpecContextRestricted(loc, form) ==
    diag(NonblockingError, "SpecContextRestricted", loc, NoLoc, form)

\* the guards of exp_ and type_ that let the index operator in everywhere
Restricted_IndexAnywhere(in_spec, pe) ==
    IF in_spec THEN pe.form = "Spec"
    ELSE \/ pe.form \in {"Lambda", "Quant", "Fun"}
         \/ pe.form = "Name" /\ pe.op = "tys"
         \/ pe.form = "BinopExp" /\ is_spec_only(pe.op)

\* the guards of exp_ and type_ under which a form is rejected before
\* anything under it is looked at: Name(_, Some(_)), Lambda, Quant,
\* BinopExp with a spec only operator, Index and the type Fun outside a
\* spec context, Spec inside one
Restricted(in_spec, pe) ==
    IF in_spec THEN pe.form = "Spec"
    ELSE \/ pe.form \in {"Index", "Lambda", "Quant", "Fun"}
         \/ pe.form = "Name" /\ pe.op = "tys"
         \/ pe.form = "BinopExp" /\ is_spec_only(pe.op)

Visit(loc, form) == [loc |-> loc, e |-> form]

\* exp_ and type_ on one node: the node returned, the diagnostics added in
\* order, and the nodes exp_ and type_ were called on with the form each
\* returned. exps, types and optional_types are translate_all
RECURSIVE exp_(_, _, _)
RECURSIVE translate_all(_, _, _)
translate_all(in_spec, dot, pes) ==
    IF pes = <<>> THEN [es |-> <<>>, diags |-> <<>>, visited |-> {}]
    ELSE LET h == exp_(in_spec, dot, Head(pes))
             t == translate_all(in_spec, dot, Tail(pes))
         IN [es |-> <<h.e>> \o t.es, diags |-> h.diags \o t.diags,
             visited |-> h.visited \cup t.visited]

exp_(in_spec, dot, pe) ==
    IF Restricted(in_spec, pe)
    THEN [e |-> UnresolvedError(pe.loc),
          diags |-> <<SpecContextRestricted(pe.loc, pe.form)>>,
          visited |-> {Visit(pe.loc, "UnresolvedError")}]
    ELSE IF pe.form = "Value" /\ pe.op = "overflow"
    THEN [e |-> UnresolvedError(pe.loc),
          diags |-> <<diag(NonblockingError, "InvalidNumber", pe.loc, NoLoc, "")>>,
          visited |-> {Visit(pe.loc, "UnresolvedError")}]
    ELSE IF pe.form = "DotCall"
    THEN LET edotted == exp_(in_spec, dot, pe.subs[1])
             feature == IF dot THEN <<>>
                        ELSE <<diag(NonblockingError, "FeatureTooNew", pe.loc, NoLoc, "")>>
         IN IF in_spec
            THEN [e |-> UnresolvedError(pe.loc),
                  diags |-> edotted.diags \o feature
                               \o <<SpecContextRestricted(pe.loc, pe.form)>>,
                  visited |-> edotted.visited \cup {Visit(pe.loc, "UnresolvedError")}]
            ELSE LET ers == translate_all(in_spec, dot, Tail(pe.subs)) IN
                 [e |-> [form |-> "MethodCall", op |-> "", loc |-> pe.loc,
                         subs |-> <<edotted.e>> \o ers.es],
                  diags |-> edotted.diags \o feature \o ers.diags,
                  visited |-> edotted.visited \cup ers.visited
                                 \cup {Visit(pe.loc, "MethodCall")}]
    ELSE LET r == translate_all(in_spec, dot, pe.subs) IN
         [e |-> [form |-> pe.form, op |-> pe.op, loc |-> pe.loc, subs |-> r.es],
          diags |-> r.diags,
          visited |-> r.visited \cup {Visit(pe.loc, pe.form)}]

\* the expressions handed to exp_: every form over literals, and over an
\* index, a method call and a spec block
PValues == {P_Value("ok"), P_Value("overflow")}

Operands ==
    PValues \cup {P_Index(P_Value("ok"), P_Value("overflow")),
                   P_DotCall(P_Value("overflow"), P_Value("ok")),
                   P_Spec}

PTypes == {T_Apply, T_Fun(T_Apply)}

PExps ==
    {P_Spec, P_Name(<<>>)}
        \cup {P_Name(<<ty>>) : ty \in PTypes}
        \cup {P_Lambda(e) : e \in Operands}
        \cup {P_Quant(e) : e \in Operands}
        \cup {P_Cast(e, ty) : e \in PValues, ty \in PTypes}
        \cup {P_Index(e, i) : e \in Operands, i \in PValues}
        \cup {P_DotCall(e, a) : e \in Operands, a \in Operands}
        \cup {P_BinopExp(l, op, r) : l \in PValues, op \in {"+", "==>"}, r \in Operands}

outsideForms == <<driverFrame, epc, is_source_definition, aliasVars, filterVars,
                  programVars, addressVars, valueVars, interfaceVars, memberVars,
                  wpc, frames, entered, last_left, unboundVars, attributeVars, declVars,
                  resumeVars>>

\* exp_ on the expression, in the context it stands in
TranslateExp ==
    /\ fpc = "exp"
    /\ LET r == exp_(in_spec_context, dot_call, pexp) IN
       /\ eexp_' = r.e
       /\ diags' = add_diags(diags, r.diags)
       /\ translated' = r.visited
    /\ fpc' = "done"
    /\ UNCHANGED <<pexp, dot_call, in_spec_context>>
    /\ UNCHANGED outsideForms

\* an expression of a function body or of a spec block, in a package whose
\* edition has method syntax or has not
InitForms ==
    /\ DriverInExpansion
    /\ IdleExp
    /\ IdleProgram
    /\ IdleAddress
    /\ IdleValue
    /\ IdleInterface
    /\ IdleMembers
    /\ IdleUnbound
    /\ IdleAttributes
    /\ IdleDecl
    /\ IdleResume
    /\ wpc = "idle"
    /\ frames = <<>>
    /\ entered = 0
    /\ last_left = NoneLeft
    /\ in_spec_context \in BOOLEAN
    /\ fpc = "exp"
    /\ \E pe \in PExps : pexp = At(pe, 1)
    /\ dot_call \in BOOLEAN
    /\ eexp_ = NoExp
    /\ translated = {}

NextForms == TranslateExp

SpecForms == InitForms /\ [][NextForms]_vars

\* ------------------------------------------------------------------------
\* The functions, constants and structs of one module or script: module_,
\* script_, aliases_from_member, struct_def, constant, function
\* (translate.rs)
\* ------------------------------------------------------------------------
MaxDeclared == 3

PMember(kind, n) == [kind |-> kind, name |-> n, loc |-> 0]

\* the members of a module: any functions, constants and structs
ModuleMembers == {PMember(k, n) : k \in {"Function", "Constant", "Struct"}, n \in {"f", "C"}}

\* the members of a script: its constants, then its one function
ScriptMemberLists ==
    {cs \o <<PMember("Function", n)>> :
        cs \in SeqsUpTo({PMember("Constant", n) : n \in {"f", "C"}}, MaxDeclared - 1),
        n \in {"f", "C"}}

MembersAt(ms) == [i \in 1..Len(ms) |-> [ms[i] EXCEPT !.loc = 200 + i]]

\* CompilationEnv::has_errors: a diagnostic of an error severity is in
\* the ledger
has_errors(ledger) == \E i \in 1..Len(ledger) : ledger[i].sev >= NonblockingError

\* aliases_from_member on a function, constant or struct: the macro
\* check_name_and_add_implicit_alias!(kind, name)
aliases_from_member(acc, m) ==
    LET chk == check_valid_module_member_name_impl(m.kind, m.name, m.loc)
        r   == add_implicit_member_alias(acc, m.name, m.loc, current_module, m.name)
    IN
    IF chk # <<>> THEN [acc |-> acc, diags |-> chk]
    ELSE [acc |-> r.acc,
          diags |-> IF r.err THEN <<duplicate_module_member(r.old_loc, m.name, m.loc)>>
                    ELSE <<>>]

outsideDecl == <<driverFrame, epc, is_source_definition, use_funs, aliases, old_aliases, uses,
                 accesses, resolved, scope, functions, filterVars, programVars, addressVars,
                 valueVars, interfaceVars, memberVars, walkVars, unboundVars, attributeVars,
                 formVars, resumeVars>>

\* module_: aliases_from_member on the next member, before any member is
\* translated
AliasesFromDeclared ==
    /\ dpc = "aliases"
    /\ LET r == aliases_from_member(new_scope, pmembers[dnext]) IN
       /\ new_scope' = r.acc
       /\ diags' = add_diags(diags, r.diags)
    /\ IF dnext = Len(pmembers)
       THEN dpc' = "members" /\ dnext' = 1
       ELSE dpc' = "aliases" /\ dnext' = dnext + 1
    /\ UNCHANGED <<dkind, pmembers, member_map, dropped>>
    /\ UNCHANGED outsideDecl

\* module_: function, constant or struct_def on the next member; script_:
\* check_valid_module_member_name and constant on the next constant, then
\* check_valid_module_member_name and function_ on the function, which goes
\* into no map. A member its map holds already is dropped under
\* assert!(context.env.has_errors())
TranslateMember ==
    /\ dpc = "members"
    /\ LET m       == pmembers[dnext]
           chk     == IF dkind = "script_"
                      THEN check_valid_module_member_name_impl(m.kind, m.name, m.loc)
                      ELSE <<>>
           ledger  == add_diags(diags, chk)
           mapped  == ~(dkind = "script_" /\ m.kind = "Function")
           present == \E e \in member_map : e.kind = m.kind /\ e.name = m.name
       IN
       /\ diags' = ledger
       /\ IF mapped /\ present
          THEN /\ dropped' = Append(dropped, [member |-> m, errors |-> has_errors(ledger)])
               /\ UNCHANGED member_map
               /\ dpc' = IF ~has_errors(ledger) THEN "panic"
                         ELSE IF dnext = Len(pmembers) THEN "done" ELSE "members"
          ELSE /\ member_map' = IF mapped THEN member_map \cup {m} ELSE member_map
               /\ UNCHANGED dropped
               /\ dpc' = IF dnext = Len(pmembers) THEN "done" ELSE "members"
    /\ dnext' = dnext + 1
    /\ UNCHANGED <<dkind, pmembers, new_scope>>
    /\ UNCHANGED outsideDecl

\* module_ or script_ entered on a definition with at least one member,
\* the ledger empty or holding a warning or an error of an earlier
\* definition
InitDecl ==
    /\ mode = "stepped"
    /\ hP = PASS_PARSER
    /\ program = PassResult(PASS_PARSER, <<>>, <<>>)
    /\ until = PASS_EXPANSION
    /\ pc = "run"
    /\ diags \in {<<>>,
                  <<diag(Warning, "UnusedAlias", 1, NoLoc, "A")>>,
                  <<diag(NonblockingError, "InvalidName", 1, NoLoc, "_g")>>}
    /\ failure = <<>>
    /\ warnings = <<>>
    /\ live = {PASS_PARSER}
    /\ executed = <<>>
    /\ gates = <<>>
    /\ takes = <<>>
    /\ snapshots = <<>>
    /\ emitted = <<>>
    /\ start = [P |-> hP, program |-> program, diags |-> <<>>]
    /\ numSev = NonblockingError
    /\ epc = "idle"
    /\ dkind \in {"module_", "script_"}
    /\ is_source_definition \in BOOLEAN
    /\ dkind = "script_" => is_source_definition
    /\ new_scope = IF dkind = "module_"
                   THEN module_self_aliases(AliasMapBuilder_new, current_module)
                   ELSE AliasMapBuilder_new
    /\ use_funs = {}
    /\ aliases = AliasMap_new
    /\ old_aliases = AliasMap_new
    /\ uses = <<>>
    /\ accesses = <<>>
    /\ resolved = <<>>
    /\ scope = "module"
    /\ functions = <<>>
    /\ IdleFilter
    /\ IdleProgram
    /\ IdleAddress
    /\ IdleValue
    /\ IdleInterface
    /\ IdleMembers
    /\ IdleWalk
    /\ IdleUnbound
    /\ IdleAttributes
    /\ IdleForms
    /\ IdleResume
    /\ \E ms \in IF dkind = "module_"
                 THEN SeqsUpTo(ModuleMembers, MaxDeclared) \ {<<>>}
                 ELSE ScriptMemberLists :
          pmembers = MembersAt(ms)
    /\ dpc = IF dkind = "module_" THEN "aliases" ELSE "members"
    /\ dnext = 1
    /\ member_map = {}
    /\ dropped = <<>>

NextDecl ==
    \/ AliasesFromDeclared
    \/ TranslateMember

SpecDecl == InitDecl /\ [][NextDecl]_vars

\* ------------------------------------------------------------------------
\* Properties of the pipeline driver
\* ------------------------------------------------------------------------
Last(s) == s[Len(s)]

Count(s, d) == Cardinality({i \in 1..Len(s) : s[i] = d})

HoldsAtOrAbove(ledger, sev) == \E i \in 1..Len(ledger) : ledger[i].sev >= sev

HasInvalidNumber(ledger) == \E i \in 1..Len(ledger) : ledger[i].code = "InvalidNumber"

ValidStart ==
    /\ start.P \in PASS_PARSER..PASS_COMPILATION
    /\ start.program # NoProgram
    /\ start.program.pass = start.P

\* the table of the severity gates, by the stage a transition leaves
C1_Threshold(k) ==
    CASE k = PASS_PARSER    -> Bug
      [] k = PASS_EXPANSION -> Bug
      [] k = PASS_NAMING    -> BlockingError
      [] k = PASS_TYPING    -> Bug
      [] k = PASS_HLIR      -> NonblockingError
      [] k = PASS_CFGIR     -> NonblockingError

\* C1: after each stage's translation the run aborts with a diagnostics
\* failure if and only if the ledger then holds a diagnostic at or above the
\* transition's threshold (Bug, Bug, BlockingError, Bug, NonblockingError,
\* NonblockingError), and otherwise proceeds to the next stage.
C1_SeverityGates ==
    /\ \A i \in 1..Len(gates) :
          LET g == gates[i] IN
          /\ g.abort <=> HoldsAtOrAbove(g.ledger, C1_Threshold(g.arm))
          /\ g.abort => i = Len(gates) /\ pc = "err"
          /\ ~g.abort =>
                IF i < Len(gates) THEN gates[i + 1].arm = g.arm + 1
                ELSE /\ pc \in {"run", "ok", "units"}
                     /\ pc # "units" => equivalent_pass(program) = g.arm + 1
    /\ pc = "err" => gates # <<>> /\ Last(gates).abort

\* a run aborted by the gate after typing on a blocking error, no Bug around
C1_Witness ==
    /\ pc = "err"
    /\ Last(gates).arm = PASS_NAMING
    /\ ~HoldsAtOrAbove(diags, Bug)
    /\ Len(gates) = 3

\* C2: the passes run in the fixed order expansion, naming, typing, HLIR,
\* CFGIR, bytecode generation, each at most once; the stage of the live
\* program grows by exactly one per transition; one variant is live.
C2_StageOrder ==
    /\ \A i \in 1..Len(executed) :
          /\ executed[i] = start.P + i
          /\ executed[i] \in PASS_EXPANSION..PASS_COMPILATION
    /\ pc \in {"run", "ok"} => equivalent_pass(program) = start.P + Len(executed)
    /\ Cardinality(live) <= 1
    /\ pc \in {"handle", "run", "ok"} /\ is_some(program)
          => live = {equivalent_pass(program)}

\* a full run from the parser to the compiled units
C2_Witness ==
    /\ pc = "ok"
    /\ executed = <<PASS_EXPANSION, PASS_NAMING, PASS_TYPING, PASS_HLIR,
                    PASS_CFGIR, PASS_COMPILATION>>

\* C3: the failure of a run aborted at a severity gate carries every
\* diagnostic added to the ledger so far, of every severity and stage.
C3_FailureCarriesAll == pc = "err" => failure = emitted

\* an abort whose failure holds a warning of an earlier stage and the error
C3_Witness ==
    /\ pc = "err"
    /\ Len(executed) >= 2
    /\ \E i, j \in 1..Len(failure) :
          /\ failure[i].sev = Warning
          /\ failure[i].pass < failure[j].pass
          /\ failure[j].sev >= NonblockingError

\* C4 as stated: once expansion has emitted the invalid-number diagnostic no
\* stage after Expansion is run.
C4_NoStageAfterExpansion ==
    HasInvalidNumber(emitted) => \A i \in 1..Len(executed) : executed[i] <= PASS_EXPANSION

\* C4, amended: the invalid-number diagnostic is an error below Bug, so the
\* gates after expansion and naming (Bug) let it pass and, unless a Bug
\* diagnostic aborts the run there, naming and typing are executed; the
\* run aborts no later than the gate after typing when the diagnostic is
\* blocking and no later than the gate after CFGIR otherwise; bytecode
\* generation never runs, a run to Compilation never succeeds, and the
\* failure carries the diagnostic.
C4_InvalidNumberAborts ==
    HasInvalidNumber(emitted) =>
        LET lastRun == IF numSev = BlockingError THEN PASS_TYPING ELSE PASS_CFGIR IN
        /\ \A i \in 1..Len(executed) : executed[i] <= lastRun
        /\ pc \in {"run", "ok", "units"} => equivalent_pass(program) < lastRun
        /\ pc = "err" => HasInvalidNumber(failure)
        /\ pc = "err" /\ ~HoldsAtOrAbove(emitted, Bug) => Last(executed) >= PASS_TYPING

\* naming and typing have run after the invalid literal, then the abort
C4_Witness ==
    /\ HasInvalidNumber(emitted)
    /\ pc = "err"
    /\ Len(executed) >= 3
    /\ executed[2] = PASS_NAMING
    /\ executed[3] = PASS_TYPING

\* C5: run on a handle with P = 0, without a program, with a variant other
\* than P, or with a target below P or above 7 panics: it executes nothing
\* and returns neither Ok nor a diagnostics failure.
C5_AssertionsAbort ==
    mode = "stepped" /\ pc # "handle" /\ (~ValidStart \/ until < start.P \/ until > PASS_COMPILATION)
        => pc = "panic" /\ executed = <<>> /\ gates = <<>> /\ failure = <<>>

\* a well-formed handle asked to run to an earlier stage
C5_Witness ==
    /\ mode = "stepped"
    /\ pc = "panic"
    /\ ValidStart
    /\ until < start.P
    /\ until > EMPTY_COMPILER

\* C6: a successful run::<TARGET> returns a handle whose variant is at
\* TARGET; with TARGET = P the run returns Ok having executed no pass and
\* evaluated no gate, with the program and the ledger as they were.
C6_RunToTarget ==
    /\ mode = "stepped" /\ pc = "ok"
          => equivalent_pass(program) = until /\ hP = until
    /\ mode = "stepped" /\ pc # "handle" /\ ValidStart /\ until = start.P
          => /\ pc \in {"run", "ok", "units"}
             /\ executed = <<>>
             /\ gates = <<>>
             /\ diags = start.diags
             /\ pc # "units" => program = start.program

\* run::<P> has returned on a handle whose ledger was not empty
C6_Witness ==
    /\ mode = "stepped"
    /\ pc = "ok"
    /\ until = start.P
    /\ start.diags # <<>>
    /\ start.P = PASS_NAMING

\* C7: diagnostics leave the ledger only through take_final_warning_diags,
\* called only in the CFGIR to Compilation transition once its gate has
\* passed; a run to an earlier target removes nothing; the warnings of the
\* Compilation result are exactly what was taken.
C7_OnlyFinalTake ==
    /\ Len(takes) <= 1
    /\ takes = <<>> => diags = emitted
    /\ until < PASS_COMPILATION => takes = <<>>
    /\ takes # <<>> =>
          /\ takes[1].at = PASS_CFGIR
          /\ Last(gates).arm = PASS_CFGIR
          /\ ~Last(gates).abort
          /\ \A d \in Range(emitted) :
                Count(emitted, d) = Count(takes[1].taken, d) + Count(diags, d)
          /\ pc \in {"run", "ok"} => program.warnings = takes[1].taken
          /\ pc = "units" => warnings = takes[1].taken

\* the compiled units were handed out with the warnings taken at the end
C7_Witness ==
    /\ pc = "units"
    /\ takes # <<>>
    /\ Len(warnings) >= 2
    /\ diags = <<>>

\* C8: construct_pre_compiled_lib snapshots each stage once, in increasing
\* order: no duplicate-snapshot assertion fires, a run that returns Ok has
\* filled all seven slots, and an aborted run has no snapshot of a stage
\* after the gate that aborted.
C8_OneSnapshotPerStage ==
    mode = "precompiled" =>
        /\ pc # "panic"
        /\ \A i \in 1..Len(snapshots) : snapshots[i] = i
        /\ Len(snapshots) <= PASS_COMPILATION
        /\ pc = "ok" => Len(snapshots) = PASS_COMPILATION
        /\ pc = "run" => Len(snapshots) = equivalent_pass(program) - 1
        /\ pc = "err" => Len(snapshots) = Last(gates).arm

\* the bundle of a successful full run
C8_Witness ==
    /\ mode = "precompiled"
    /\ pc = "ok"
    /\ snapshots = <<PASS_PARSER, PASS_EXPANSION, PASS_NAMING, PASS_TYPING,
                     PASS_HLIR, PASS_CFGIR, PASS_COMPILATION>>

\* ------------------------------------------------------------------------
\* Properties of the expansion of one module
\* ------------------------------------------------------------------------
\* what a use declaration introduces, read off the declaration: a module
\* alias (a bound module, used as a module or through Self, under a name
\* other than Self), a member alias (a bound member of a bound module, a
\* struct under a capitalised name only), or nothing
IntroModule(u) ==
    /\ u.ident \in {ModuleIdent_(1, "M"), ModuleIdent_(2, "M")}
    /\ u.kind = "Module" \/ u.member = "Self"
    /\ u.alias # "Self"

IntroMember(u) ==
    /\ u.ident \in {ModuleIdent_(1, "M"), ModuleIdent_(2, "M")}
    /\ u.kind = "Members"
    /\ u.member \in {"f", "S"}
    /\ u.member = "S" => u.alias \in {NoName, "A"}

Namespace(u) ==
    IF IntroModule(u) THEN "module" ELSE IF IntroMember(u) THEN "member" ELSE "none"

AliasOf(u) ==
    IF u.alias # NoName THEN u.alias
    ELSE IF IntroModule(u) THEN u.ident.module ELSE u.member

\* the declarations, by position, that introduce the alias a in namespace ns
Decls(ns, a) == {j \in 1..Len(uses) : Namespace(uses[j]) = ns /\ AliasOf(uses[j]) = a}

FirstDecl(ns, a) == CHOOSE j \in Decls(ns, a) : \A k \in Decls(ns, a) : j <= k

DiagsAt(code, locs) == {k \in 1..Len(diags) : diags[k].code = code /\ diags[k].loc \in locs}

ReferencedModule(a) ==
    \E k \in 1..Len(accesses) : accesses[k].chain = "Two" /\ accesses[k].n1 = a

\* C9: when the scope of the module closes, a module alias introduced by a
\* use declaration and never referenced in the module has exactly one
\* unused-alias diagnostic naming it if the module is a source definition
\* and none if it is a dependency definition (which has no unused-alias
\* diagnostic at all); a referenced module alias has none.
C9_UnusedModuleAlias ==
    epc = "closed" =>
        /\ \A i \in 1..Len(uses) :
              IntroModule(uses[i]) =>
                 LET a == AliasOf(uses[i])
                     n == Cardinality({k \in DiagsAt("UnusedAlias", Decls("module", a)) :
                                          diags[k].name = a})
                 IN n = IF is_source_definition /\ ~ReferencedModule(a) THEN 1 ELSE 0
        /\ ~is_source_definition => DiagsAt("UnusedAlias", 1..Len(uses)) = {}

\* a source module closed with two module aliases, one referenced, one not
C9_Witness ==
    /\ epc = "closed"
    /\ is_source_definition
    /\ Decls("module", "A") # {}
    /\ Decls("module", "M") # {}
    /\ ReferencedModule("A")
    /\ ~ReferencedModule("M")
    /\ \E k \in 1..Len(diags) : diags[k].code = "UnusedAlias" /\ diags[k].name = "M"

\* what the first declaration of the alias a in namespace ns names
FirstTarget(ns, a) ==
    LET u == uses[FirstDecl(ns, a)] IN
    [ident |-> u.ident, member |-> IF ns = "module" THEN NoName ELSE u.member]

\* every later declaration of an alias its namespace already holds has one
\* duplicate diagnostic, at its site, citing the site of the first
C10_OneDuplicateDiag ==
    \A i \in 1..Len(uses) :
        LET u == uses[i] IN
        IF Namespace(u) # "none" /\ FirstDecl(Namespace(u), AliasOf(u)) < i
        THEN /\ Cardinality(DiagsAt("DuplicateItem", {i})) = 1
             /\ \A k \in DiagsAt("DuplicateItem", {i}) :
                   /\ diags[k].loc2 = FirstDecl(Namespace(u), AliasOf(u))
                   /\ diags[k].name = AliasOf(u)
        ELSE DiagsAt("DuplicateItem", {i}) = {}

\* the alias tables and the lookups made give the first declaration's target
C10_LookupsResolveToFirst ==
    /\ \A e \in new_scope.modules \cup aliases.modules :
          ~e.implicit => /\ e.loc = FirstDecl("module", e.alias)
                         /\ e.ident = FirstTarget("module", e.alias).ident
    /\ \A e \in new_scope.members \cup aliases.members :
          /\ e.loc = FirstDecl("member", e.alias)
          /\ e.ident = FirstTarget("member", e.alias).ident
          /\ e.member = FirstTarget("member", e.alias).member
    /\ \A k \in 1..Len(resolved) :
          LET ptn == accesses[k] IN
          /\ ptn.chain = "Two" /\ Decls("module", ptn.n1) # {}
                => resolved[k] = ModuleAccess(FirstTarget("module", ptn.n1).ident, ptn.n2)
          /\ ptn.chain = "One" /\ Decls("member", ptn.n1) # {}
                /\ (ptn.access = "Type" \/ ptn.n1 = "A")
                => resolved[k] = ModuleAccess(FirstTarget("member", ptn.n1).ident,
                                              FirstTarget("member", ptn.n1).member)

\* the implicit use-fun candidate of a name is that of its first declaration
C10_CandidateOfFirst ==
    \A c \in use_funs :
        c.kind = "UseAlias" =>
            /\ c.function = FirstTarget("member", c.alias)
            /\ c.loc = FirstDecl("member", c.alias)

\* C10: of two use declarations that introduce the same alias name in the
\* same scope, the later one adds exactly one duplicate diagnostic citing
\* both sites, and its binding does not take effect: the module alias, the
\* member alias and the implicit use-fun candidate of that name resolve to
\* the first declaration's target.
C10_DuplicateAlias ==
    /\ C10_OneDuplicateDiag
    /\ C10_LookupsResolveToFirst
    /\ C10_CandidateOfFirst

\* ------------------------------------------------------------------------
\* Properties of scope exit and the use-fun candidates
\* ------------------------------------------------------------------------
\* the unused-alias diagnostics for the alias a that a step adds
NewUnusedDiags(a) ==
    {k \in (Len(diags) + 1)..Len(diags') :
        /\ diags'[k].code = "UnusedAlias"
        /\ diags'[k].name = a.alias
        /\ diags'[k].loc = a.loc}

\* C11: at scope exit, for every member alias the alias map reports unused:
\* with a use-fun table supplied that holds a UseAlias candidate of that
\* name, the candidate's used flag becomes false and no unused-alias
\* diagnostic is added; otherwise (no table, no candidate, a
\* FunctionDeclaration candidate) one unused-alias diagnostic is added for a
\* source definition and none for a dependency. A UseAlias candidate enters
\* the table with used = true, and its flag changes only at scope exit, to
\* false.
C11_UseFunMarking ==
    [][/\ (epc = "body" /\ epc' = "closed") =>
            \A a \in AliasMap_set_to_outer_scope(aliases, old_aliases).members :
                IF scope = "module"
                   /\ \E c \in use_funs : c.alias = a.alias /\ c.kind = "UseAlias"
                THEN /\ NewUnusedDiags(a) = {}
                     /\ \A c \in use_funs' :
                           c.alias = a.alias => c.kind = "UseAlias" /\ ~c.used
                ELSE Cardinality(NewUnusedDiags(a)) = IF is_source_definition THEN 1 ELSE 0
       /\ \A c \in use_funs' :
             c.kind = "UseAlias" /\ c \notin use_funs =>
                \/ c.used
                \/ /\ epc = "body" /\ epc' = "closed" /\ scope = "module"
                   /\ [c EXCEPT !.used = TRUE] \in use_funs
       /\ \A c \in use_funs :
             c.kind = "UseAlias" /\ ~c.used => c \in use_funs'
      ]_vars

\* a source module closed with an unused alias of a function: its candidate
\* is marked unused and nothing is reported
C11_Witness ==
    /\ epc = "closed"
    /\ scope = "module"
    /\ is_source_definition
    /\ \E c \in use_funs : c.kind = "UseAlias" /\ ~c.used /\ c.alias = "A"
    /\ \E c \in use_funs : c.kind = "FunctionDeclaration"
    /\ \A k \in 1..Len(diags) : diags[k].code # "UnusedAlias"

\* ------------------------------------------------------------------------
\* Properties of the warning filters
\* ------------------------------------------------------------------------
\* the diagnostics the validation of an allow attribute adds: one for a
\* missing or empty list, one per `n = v` or `n(...)` parameter, one per
\* unknown name
MalformedCount(attr) ==
    IF attr.value = "None" THEN 0
    ELSE IF attr.value = "Name" \/ attr.inner = <<>> THEN 1
    ELSE Cardinality({i \in 1..Len(attr.inner) : attr.inner[i].form # "Name"})
         + Cardinality({i \in 1..Len(attr.inner) : attr.inner[i].name = "bogus"})

\* C12: for a module that is a non-source definition or belongs to a
\* dependency package, the filter set pushed for it and stored in its
\* definition contains the suppress-everything set whatever its allow
\* attribute says, so the union of the active scopes suppresses every
\* warning inside it, also under the scope of a nested function; the
\* attribute is validated all the same: the module's malformed allow
\* parameters each have their diagnostic.
C12_DependencyFilter ==
    epc \in {"module", "function", "members_done", "module_done"}
       /\ (~is_source_definition \/ package_config.is_dependency) =>
        /\ all_filter_alls \subseteq warning_filter
        /\ epc # "module_done" =>
              /\ all_filter_alls \subseteq warning_filter_scopes[1]
              /\ \A w \in Warnings :
                    Suppresses(UNION {warning_filter_scopes[i] :
                                         i \in 1..Len(warning_filter_scopes)}, w)
        /\ Len(diags) >= MalformedCount(attributes)
        /\ epc = "module" => Len(diags) = MalformedCount(attributes)
        /\ \A k \in 1..Len(diags) : diags[k].code = "InvalidValue"

\* a source definition of a dependency package, inside a function, whose
\* module allows only unused and an unknown name
C12_Witness ==
    /\ epc = "function"
    /\ is_source_definition
    /\ package_config.is_dependency
    /\ attributes.value = "Parameterized"
    /\ Len(attributes.inner) = 2
    /\ attributes.inner[1].name = "unused"
    /\ attributes.inner[2].name = "bogus"
    /\ Len(diags) >= 1
    /\ all_filter_alls \subseteq warning_filter_scopes[1]
    /\ Len(warning_filter_scopes) = 2

\* ------------------------------------------------------------------------
\* Properties of program
\* ------------------------------------------------------------------------
Merged == ppc \in {"scripts", "done", "panic"}

\* the indices of the duplicate-module diagnostics at a location
DuplicateModuleAt(loc) ==
    {k \in 1..Len(diags) : diags[k].code = "DuplicateModule" /\ diags[k].loc = loc}

\* the first definition of the module's identity in a list of definitions
FirstDefinition(defs, mident) ==
    CHOOSE i \in 1..Len(defs) :
        /\ defs[i].kind = "Module" /\ defs[i].mident = mident
        /\ \A j \in 1..(i - 1) : ~(defs[j].kind = "Module" /\ defs[j].mident = mident)

\* the library definitions of a module that a source definition defines too
Colliding ==
    {i \in 1..Len(lib_definitions) :
        /\ lib_definitions[i].kind = "Module"
        /\ \E j \in 1..Len(source_definitions) :
              /\ source_definitions[j].kind = "Module"
              /\ source_definitions[j].mident = lib_definitions[i].mident}

\* what the merge does for the colliding library definition i: the source
\* definition stays, no diagnostic with the flag, one naming both without
CollisionPolicy(i) ==
    LET l == lib_definitions[i]
        s == source_definitions[FirstDefinition(source_definitions, l.mident)]
    IN /\ \E e \in source_module_map :
             e.key = l.mident /\ e.is_source_module /\ e.loc = s.loc
       /\ \A e \in source_module_map : e.key = l.mident => e.is_source_module
       /\ sources_shadow_deps => DuplicateModuleAt(l.loc) = {}
       /\ ~sources_shadow_deps =>
             /\ Cardinality(DuplicateModuleAt(l.loc)) = 1
             /\ \A k \in DuplicateModuleAt(l.loc) : diags[k].loc2 = s.loc

\* C13 as stated: every library module with the identity of a source module
\* is superseded by the source definition, silently when sources shadow
\* dependencies, with exactly one duplicate-module diagnostic naming the
\* library and the source location otherwise.
C13_EveryCollidingLib ==
    Merged => \A i \in Colliding : CollisionPolicy(i)

\* C13: the module map keeps the source definition of every colliding
\* identity. The first library definition of the identity is superseded
\* silently when sources shadow dependencies and gets exactly one
\* duplicate-module diagnostic naming its location and the source location
\* otherwise; a later library definition of the same identity gets, whatever
\* the flag, exactly one duplicate-module diagnostic naming its location
\* and the location of the first library definition.
C13_FirstCollidingLib ==
    Merged =>
        \A i \in Colliding :
            LET l     == lib_definitions[i]
                first == FirstDefinition(lib_definitions, l.mident)
            IN IF first = i THEN CollisionPolicy(i)
               ELSE /\ \A e \in source_module_map : e.key = l.mident => e.is_source_module
                    /\ Cardinality(DuplicateModuleAt(l.loc)) = 1
                    /\ \A k \in DuplicateModuleAt(l.loc) :
                          diags[k].loc2 = lib_definitions[first].loc

\* C13 witness: without the flag, the merge has reported a library module
\* that collides with a source module
C13_Witness ==
    /\ ppc = "done"
    /\ ~sources_shadow_deps
    /\ \E i \in Colliding :
          /\ FirstDefinition(lib_definitions, lib_definitions[i].mident) = i
          /\ \E k \in DuplicateModuleAt(lib_definitions[i].loc) :
                diags[k].loc2 \in {source_definitions[j].loc : j \in 1..Len(source_definitions)}

IsScript(d) == d.kind = "Script"

\* the source definitions that are scripts, in source-definition order
SourceScripts == SelectSeq(source_definitions, IsScript)

\* the key the policy gives the i-th source script
PolicyKey(i) ==
    LET n     == SourceScripts[i].function_name
        same  == {j \in 1..Len(SourceScripts) : SourceScripts[j].function_name = n}
        before == {j \in same : j < i}
    IN IF same = {i} THEN n ELSE n \o "_" \o ToString(Cardinality(before))

\* C14: once program has keyed the scripts, the script map holds every
\* source script, the only script of its function name under that name
\* and each of several scripts of one name under name_i, i its 0-based
\* position among them in source-definition order.
C14_ScriptKeys ==
    ppc \in {"done", "panic"} =>
        /\ ppc = "done"
        /\ Cardinality(keyed) = Len(SourceScripts)
        /\ \A i \in 1..Len(SourceScripts) :
              \E e \in keyed :
                  /\ e.key = PolicyKey(i)
                  /\ e.script.loc = SourceScripts[i].loc
                  /\ e.script.function_name = SourceScripts[i].function_name

\* definition is about to be called on a script of a library definition
AtLibScript ==
    /\ ppc = "libs"
    /\ next_def <= Len(lib_definitions)
    /\ lib_definitions[next_def].kind = "Script"

\* C15: the call of definition on a script of a library definition adds
\* nothing to the scripts, to either module map or to the diagnostics, and
\* every entry of the resulting script map is a script of a source
\* definition.
C15_LibScriptsDropped ==
    [][/\ AtLibScript =>
            /\ scripts' = scripts
            /\ diags' = diags
            /\ lib_module_map' = lib_module_map
            /\ source_module_map' = source_module_map
            /\ keyed' = keyed
       /\ \A e \in keyed' :
            \E i \in 1..Len(source_definitions) :
                /\ source_definitions[i].kind = "Script"
                /\ source_definitions[i].loc = e.script.loc]_vars

\* C15 witness: program has finished on library definitions that hold a
\* script and on source definitions that hold one, which is keyed
C15_Witness ==
    /\ ppc = "done"
    /\ \E i \in 1..Len(lib_definitions) : lib_definitions[i].kind = "Script"
    /\ keyed # {}
    /\ Cardinality(keyed) = Len(SourceScripts)

\* ------------------------------------------------------------------------
\* Properties of the named addresses
\* ------------------------------------------------------------------------
\* every named-address map visible to the compilation
VisibleMaps == Range(named_address_maps) \cup Range(pre_compiled_maps)

\* the values some visible map gives the name
ValuesOf(n) == {m[n] : m \in {v \in VisibleMaps : n \in DOMAIN v}}

\* the name maps to more than one value, or a value it maps to is the
\* value of a different name
Ambiguous(n) ==
    \/ \E v, w \in ValuesOf(n) : v # w
    \/ \E o \in AddressNames \ {n} : ValuesOf(n) \cap ValuesOf(o) # {}

\* C16: the conflict set is the set of the names that are ambiguous over
\* every visible named-address map, and every resolved named address
\* carries name_conflict = TRUE exactly when its name is in that set.
C16_AddressConflicts ==
    /\ apc \in {"context", "mapped", "resolved"} =>
          address_conflicts = {n \in AddressNames : Ambiguous(n)}
    /\ apc = "resolved" /\ address.kind = "Numerical" /\ address.name # NoName =>
          (address.name_conflict <=> Ambiguous(address.name))

\* C16 witness: a name with one value everywhere is resolved with
\* name_conflict set, its value being the value of another name in
\* another map
C16_Witness ==
    /\ apc = "resolved"
    /\ address.kind = "Numerical"
    /\ address.name = "a"
    /\ address.name_conflict
    /\ Cardinality(ValuesOf("a")) = 1
    /\ "b" \notin DOMAIN (named_address_maps \o pre_compiled_maps)[named_address_mapping]

\* ------------------------------------------------------------------------
\* Properties of integer literals
\* ------------------------------------------------------------------------
\* the width in bits the claim gives a suffix
WidthOf(suffix) ==
    CASE suffix = "u8" -> 8 [] suffix = "u16" -> 16 [] suffix = "u32" -> 32
      [] suffix = "u64" -> 64 [] suffix = "u128" -> 128 [] OTHER -> 256

\* C17: a literal with the suffix uN is accepted iff its value is below
\* 2^N, an unsuffixed literal iff its value is below 2^256; a rejected
\* literal adds one invalid-number diagnostic and its expression is the
\* unresolved-error node, an accepted literal adds no diagnostic and keeps
\* its exact value with the width of its suffix.
C17_LiteralWidths ==
    vpc = "done" =>
        /\ evalue.some <=> Below(pvalue.v, WidthOf(pvalue.suffix))
        /\ ~evalue.some =>
              /\ Len(diags) = 1
              /\ diags[1].code = "InvalidNumber"
              /\ eexp = "UnresolvedError"
        /\ evalue.some =>
              /\ diags = <<>>
              /\ eexp = "Value"
              /\ evalue.value.u = pvalue.v
              /\ evalue.value.variant =
                    (IF pvalue.suffix = "" THEN "InferredNum"
                     ELSE "U" \o ToString(WidthOf(pvalue.suffix)))

\* C17 witness: 2^64 with the suffix u64 has been rejected
C17_Witness ==
    /\ vpc = "done"
    /\ pvalue = [suffix |-> "u64", v |-> Num(64, 0)]
    /\ ~evalue.some
    /\ Len(diags) = 1

\* ------------------------------------------------------------------------
\* Properties of the interface files
\* ------------------------------------------------------------------------
\* compilation w takes a step while it is at a file
Steps(w) ==
    /\ worker[w].file \in 1..Len(mv_files)
    /\ worker'[w] # worker[w]

\* the file compilation w is at
FileOf(w) == mv_files[worker[w].file]

\* compilation w has left the file without an error: it is at the next
\* file, or has returned Ok(result)
MovedOn(w) ==
    \/ worker'[w] = [file |-> worker[w].file + 1, at |-> "check"]
    \/ worker'[w] = [file |-> worker[w].file, at |-> "done"]

\* C18: with separate_by_hash, a compilation checks the file, writes the
\* whole contents to its temporary if the file is absent, checks again, and
\* renames only if the file is still absent; a compilation that sees the
\* file at either check leaves it untouched, is left without a temporary,
\* moves on without an error and has the path in its result.
C18_CheckWriteCheck ==
    [][separate_by_hash =>
         \A w \in Workers :
            Steps(w) =>
               /\ worker[w].at \in {"check", "recheck"} /\ disk[FileOf(w)] # Absent =>
                     /\ disk' = disk
                     /\ renames' = renames
                     /\ tmp'[w] = Absent
                     /\ MovedOn(w)
                     /\ file_path(mv_files, FileOf(w)) \in Range(result'[w])
               /\ worker[w].at = "check" /\ disk[FileOf(w)] = Absent =>
                     /\ worker'[w].at = "write"
                     /\ disk' = disk
               /\ worker[w].at = "write" =>
                     /\ worker'[w].at = "write_all"
                     /\ disk' = disk
               /\ worker[w].at = "write_all" =>
                     /\ tmp'[w] = write_file_to_string(module_to_named_address, FileOf(w))
                     /\ worker'[w].at = "recheck"
                     /\ disk' = disk
               /\ worker[w].at = "recheck" /\ disk[FileOf(w)] = Absent =>
                     /\ worker'[w].at = "rename"
                     /\ disk' = disk
               /\ disk'[FileOf(w)] # disk[FileOf(w)] =>
                     /\ worker[w].at = "rename"
                     /\ w \in passed[FileOf(w)]
                     /\ disk'[FileOf(w)] = tmp[w]]_vars

\* C18 witness: a compilation has written its temporary, has seen at the
\* second check the file another compilation installed, has dropped the
\* temporary and has returned the path
C18_Witness ==
    /\ separate_by_hash
    /\ worker[1].at = "done"
    /\ 1 \in discarded[1]
    /\ renames[1] = <<2>>
    /\ tmp[1] = Absent
    /\ file_path(mv_files, 1) \in Range(result[1])

\* C19 as stated: with separate_by_hash, no file is renamed into place
\* more than once, whatever the interleaving.
C19_InstalledAtMostOnce ==
    separate_by_hash => \A k \in 1..2 : Len(renames[k]) <= 1

\* C19: with separate_by_hash, a compilation renames a file into place at
\* most once, and only after its second check saw no file; no second check
\* made after the first rename passes. The file is renamed by every
\* compilation whose second check came before the first rename, which can
\* be more than one.
C19_InstalledByThosePassed ==
    [][separate_by_hash =>
         \A k \in 1..2 :
            /\ \A i, j \in 1..Len(renames'[k]) : renames'[k][i] = renames'[k][j] => i = j
            /\ Range(renames'[k]) \subseteq passed'[k]
            /\ renames[k] # <<>> => passed'[k] = passed[k]
            /\ (\A w \in Workers : worker'[w].at = "done") =>
                  Range(renames'[k]) = passed'[k]]_vars

\* C19 witness: two compilations have renamed the same file into place
C19_Witness ==
    /\ separate_by_hash
    /\ Len(renames[1]) = 2
    /\ \A w \in Workers : worker[w].at = "done"

\* C20: whatever the interface directory held beforehand, a compilation that
\* has returned has returned the paths of the compiled modules, in order,
\* and each path holds the interface the compilation generates for it.
C20_CacheTransparent ==
    \A w \in Workers :
        worker[w].at = "done" =>
            /\ result[w] = [i \in 1..Len(mv_files) |-> file_path(mv_files, mv_files[i])]
            /\ \A i \in 1..Len(mv_files) :
                  disk[mv_files[i]] = write_file_to_string(module_to_named_address, mv_files[i])

\* ------------------------------------------------------------------------
\* Properties of the module-member index
\* ------------------------------------------------------------------------
Indexed == mpc = "translate"

\* the identities the definitions define
Defined(defs) == {defs[i].mident : i \in {j \in 1..Len(defs) : defs[j].kind = "Module"}}

\* the kind under which a member declares its name, "None" when it declares none
DeclaredKind(mem) ==
    CASE mem.form \in {"Function", "Constant", "Struct"} -> mem.form
      [] mem.form = "SpecSchema" -> "Schema"
      [] mem.form = "SpecModule" -> "Function"
      [] OTHER -> "None"

\* the places <<definition, member>> where the definitions of identity k declare n
Declarations(defs, k, n) ==
    {p \in (1..Len(defs)) \X (1..3) :
        /\ defs[p[1]].kind = "Module" /\ defs[p[1]].mident = k
        /\ p[2] <= Len(defs[p[1]].members)
        /\ defs[p[1]].members[p[2]].name = n
        /\ DeclaredKind(defs[p[1]].members[p[2]]) # "None"}

\* the names the definitions of identity k declare, each with the kind of
\* its last declaration
EntryOf(defs, k) ==
    [n \in {x \in {"f", "g", "S", "T", "M"} : Declarations(defs, k, x) # {}} |->
        LET last == CHOOSE p \in Declarations(defs, k, n) :
                        \A q \in Declarations(defs, k, n) :
                            q[1] < p[1] \/ (q[1] = p[1] /\ q[2] <= p[2])
        IN DeclaredKind(defs[last[1]].members[last[2]])]

\* C24 as stated: once the index is built, the entry of a module a source
\* definition defines holds exactly the source definitions' names and
\* kinds, whatever library or pre-compiled definitions of the identity
\* follow, and the entry of any other module is that of the first
\* dependency that defines it.
C24_DependenciesNeverExtend ==
    Indexed =>
        \A k \in DOMAIN members :
            members[k] = IF k \in Defined(source_definitions) THEN EntryOf(source_definitions, k)
                         ELSE IF k \in Defined(lib_definitions) THEN EntryOf(lib_definitions, k)
                         ELSE EntryOf(pre_compiled_definitions, k)

\* C24: a module of the pre-compiled library is added to the index only if
\* the index has no entry for its identity; a library definition given as a
\* dependency source file is collected like a source definition: its names
\* are merged into the entry of its identity, and a name the entry already
\* has takes the library's kind.
C24_PreCompiledNeverExtends ==
    Indexed =>
        /\ DOMAIN members = Defined(source_definitions) \cup Defined(lib_definitions)
                               \cup Defined(pre_compiled_definitions)
        /\ \A k \in DOMAIN members :
              members[k] =
                 IF k \in Defined(source_definitions \o lib_definitions)
                 THEN EntryOf(source_definitions \o lib_definitions, k)
                 ELSE EntryOf(pre_compiled_definitions, k)

\* C24 witness: the index is built, and a module of the pre-compiled
\* library whose identity a source definition defines declares names the
\* entry does not have
C24_Witness ==
    /\ Indexed
    /\ \E k \in Defined(source_definitions) \cap Defined(pre_compiled_definitions) :
          /\ k \notin Defined(lib_definitions)
          /\ DOMAIN EntryOf(pre_compiled_definitions, k) \ DOMAIN members[k] # {}
          /\ members[k] = EntryOf(source_definitions, k)

\* package set P is supplied one way only: as library definitions
\* (dependency sources) or as the pre-compiled library
OneConfiguration == lib_definitions = <<>> \/ pre_compiled_definitions = <<>>

PackageSet == lib_definitions \o pre_compiled_definitions

\* C21: with package set P supplied either as dependency sources or as the
\* pre-compiled library, the index built for the targets is the same: the
\* entry of a target module holds the target's names, the entry of any
\* other module of P holds P's, also when a module of P has the identity of
\* a target module.
C21_SameIndexEitherWay ==
    Indexed /\ OneConfiguration =>
        /\ DOMAIN members = Defined(source_definitions) \cup Defined(PackageSet)
        /\ \A k \in DOMAIN members :
              members[k] = IF k \in Defined(source_definitions)
                           THEN EntryOf(source_definitions, k)
                           ELSE EntryOf(PackageSet, k)

\* every definition program is given, in the order they are collected
AllDefinitions == source_definitions \o lib_definitions \o pre_compiled_definitions

\* the index has the names of every source and library definition, and of
\* every pre-compiled module whose identity no source or library defines
Complete ==
    /\ DOMAIN members = Defined(AllDefinitions)
    /\ \A k \in Defined(source_definitions \o lib_definitions) :
          DOMAIN EntryOf(source_definitions \o lib_definitions, k) \subseteq DOMAIN members[k]
    /\ \A k \in Defined(pre_compiled_definitions) \ Defined(source_definitions \o lib_definitions) :
          DOMAIN EntryOf(pre_compiled_definitions, k) \subseteq DOMAIN members[k]

\* C25: no definition is translated before the index is complete, the
\* index does not change while definitions are translated, and whether a
\* use of a module or of a member resolves depends on the declarations
\* alone, not on where the use stands among the definitions.
C25_IndexBuiltFirst ==
    [][/\ next_def' # next_def => mpc = "translate" /\ Complete
       /\ mpc = "translate" => members' = members /\ mpc' = "translate"
       /\ resolved_use' # resolved_use =>
             /\ resolved_use'.module <=> resolved_use'.mident \in Defined(AllDefinitions)
             /\ resolved_use'.kind # "None" <=>
                   /\ resolved_use'.mident \in Defined(AllDefinitions)
                   /\ \/ Declarations(source_definitions \o lib_definitions,
                                      resolved_use'.mident, resolved_use'.member) # {}
                      \/ /\ resolved_use'.mident
                               \notin Defined(source_definitions \o lib_definitions)
                         /\ Declarations(pre_compiled_definitions,
                                         resolved_use'.mident, resolved_use'.member) # {}]_vars

\* C25 witness: the use in the first definition has resolved to a member of
\* a module that only a later definition defines
C25_Witness ==
    /\ mpc = "translate"
    /\ next_def = 2
    /\ Len(source_definitions) = 1
    /\ resolved_use.kind # "None"
    /\ resolved_use.mident \in Defined(lib_definitions) \ Defined(source_definitions)

\* ------------------------------------------------------------------------
\* Properties of the translators' scopes
\* ------------------------------------------------------------------------
Declarations_open == {i \in 1..Len(frames) : IsDeclaration(frames[i].translator)}

\* C22: alias scopes are balanced. The translator that is left restores the
\* bindings of the alias map to what they were when it was entered, so a
\* declaration leaves the bindings as it found them; every translator in
\* progress holds the map of the moment it pushed; between the top-level
\* definitions the map binds nothing, and the assertion that no alias enters
\* a module or a script never fires
C22_AliasScopesBalanced ==
    /\ wpc # "ice_aliases"
    /\ frames = <<>> => Bindings(aliases) = NoBindings
    /\ last_left.after.aliases = last_left.before.aliases
    /\ \A i \in 1..Len(frames) :
          frames[i].old_aliases.some =>
             Bindings(frames[i].old_aliases.map) = frames[i].before.aliases

\* C22 witness: a spec member inside a spec block of a module was left that
\* had shadowed an alias for its type parameter
C22_Witness ==
    /\ last_left.translator = "spec_member"
    /\ last_left.inside.aliases # last_left.before.aliases
    /\ last_left.after.aliases = last_left.before.aliases
    /\ Len(frames) = 2
    /\ Bindings(aliases) # NoBindings

\* C23: warning filter scopes are balanced. The stack holds one scope for
\* each module, script, struct, constant and function being translated and
\* no other; the declaration that is left had pushed one scope and leaves
\* the depth it found, and no pop meets an empty stack
C23_FilterScopesBalanced ==
    /\ wpc # "ice_filters"
    /\ Len(warning_filter_scopes) = Cardinality(Declarations_open)
    /\ last_left.after.depth = last_left.before.depth
    /\ last_left.inside.depth =
          last_left.before.depth + (IF IsDeclaration(last_left.translator) THEN 1 ELSE 0)

\* C23 witness: a constant of a module was left, with the scope of the
\* module under that of the constant until then
C23_Witness ==
    /\ last_left.translator = "constant_"
    /\ last_left.inside.depth = 2
    /\ Len(warning_filter_scopes) = 1
    /\ Len(frames) = 1

\* ------------------------------------------------------------------------
\* Properties of the single-name accesses
\* ------------------------------------------------------------------------
\* what the member aliases of the scope make of the single name n
ByMemberAlias(n) ==
    IF Bound(aliases.members, n)
    THEN ModuleAccess(Get(aliases.members, n).ident, Get(aliases.members, n).member)
    ELSE Name(n)

SingleNames == {i \in 1..Len(accesses) : accesses[i].chain = "One"}

\* C26 as stated: every single-name access, in any position, resolves to
\* the module member its name is an alias of and stays a bare name only if
\* the member aliases do not bind it
C26_MemberAliasFirst ==
    epc = "body" =>
       \A i \in SingleNames : resolved[i] = ByMemberAlias(accesses[i].n1)

\* C26 amended: a single-name access in type or apply position, and one in
\* term position whose name starts with an upper-case letter, resolves to
\* the module member its name is an alias of and stays a bare name only if
\* the member aliases do not bind it; any other name in term position stays
\* a bare name, bound or not
C26_MemberAliasWhereLookedUp ==
    epc = "body" =>
       \A i \in SingleNames :
          IF accesses[i].access = "Term"
                /\ ~is_valid_struct_constant_or_schema_name(accesses[i].n1)
          THEN resolved[i] = Name(accesses[i].n1)
          ELSE resolved[i] = ByMemberAlias(accesses[i].n1)

\* C26 witness: a call of and a term named by an alias resolved to the
\* member, and a name no alias binds stayed bare
C26_Witness ==
    /\ epc = "body"
    /\ \E i \in SingleNames :
          /\ accesses[i].access \in {"ApplyPositional", "Term"}
          /\ Bound(aliases.members, accesses[i].n1)
          /\ resolved[i].tag = "ModuleAccess"

\* ------------------------------------------------------------------------
\* Properties of the unbound names
\* ------------------------------------------------------------------------
RECURSIVE FreeNames(_)
RECURSIVE FreeInItems(_)

\* the unqualified names free in a sequence: a let binds in the items after
\* it, not in its own right-hand side
FreeInItems(items) ==
    IF items = <<>> THEN {}
    ELSE LET i == Head(items) IN
         CASE i.tag = "Seq"     -> FreeNames(i.args[1]) \cup FreeInItems(Tail(items))
           [] i.tag = "Declare" -> FreeInItems(Tail(items)) \ Range(i.names)
           [] i.tag = "Bind"    ->
                 FreeNames(i.args[1]) \cup (FreeInItems(Tail(items)) \ Range(i.names))

\* the unqualified names free in an expression: the parameters of a lambda
\* and of a quantifier are bound in the body only, an assignment target is
\* a use
FreeNames(e) ==
    CASE e.tag = "Value"    -> {}
      [] e.tag = "Name"     -> {e.names[1]}
      [] e.tag = "BinopExp" -> FreeNames(e.args[1]) \cup FreeNames(e.args[2])
      [] e.tag = "Lambda"   -> FreeNames(e.args[1]) \ Range(e.names)
      [] e.tag = "Quant"    ->
            (FreeNames(e.args[Len(e.args)]) \ Range(e.names))
               \cup UNION {FreeNames(e.args[k]) : k \in 1..(Len(e.args) - 1)}
      [] e.tag = "Assign"   -> FreeNames(e.args[1]) \cup Range(e.names)
      [] e.tag = "Block"    -> FreeInItems(e.args)

FreeInMember(m) ==
    IF m.kind = "Condition" THEN UNION {FreeNames(m.exps[k]) : k \in 1..Len(m.exps)} ELSE {}

FreeInConditions == UNION {FreeInMember(espec_block[i]) : i \in 1..Len(espec_block)}

\* C27: the unbound names of a spec block are the unqualified names free
\* in the expressions of its conditions
C27_UnboundAreFree ==
    upc = "bound" => unbound_names = FreeInConditions

\* every name the scan reports is free in a condition: the scan only ever
\* misses names
C27_UnboundWithinFree ==
    upc = "bound" => unbound_names \subseteq FreeInConditions

\* ------------------------------------------------------------------------
\* Properties of the parameters of an allow attribute
\* ------------------------------------------------------------------------
\* the module's own attributes decide its filter: a source definition of a
\* package that is not a dependency, past module_warning_filter and before
\* any function
OwnFilter == epc = "module" /\ is_source_definition /\ ~package_config.is_dependency

Parameters == 1..Len(attributes.inner)

Bare(i) == attributes.inner[i].form = "Name"

Known(i) == filter_from_str(attributes.inner[i].name, "allow") # {}

InvalidValues == {k \in 1..Len(diags) : diags[k].code = "InvalidValue"}

\* C28: without a parameter list, or with an empty one, the allow attribute
\* adds one invalid-value diagnostic and no filter; with parameters, each
\* that is not a bare identifier adds one diagnostic and no filter, each
\* bare identifier that names no filter adds one diagnostic and no filter,
\* and the filters are exactly those of the known bare identifiers
C28_FilterParameters ==
    OwnFilter /\ attributes.value # "None" =>
       IF attributes.value = "Name" \/ attributes.inner = <<>>
       THEN /\ Cardinality(InvalidValues) = 1
            /\ warning_filter = package_config.warning_filter
       ELSE /\ warning_filter =
                  package_config.warning_filter
                     \cup UNION {filter_from_str(attributes.inner[i].name, "allow") :
                                    i \in {j \in Parameters : Bare(j)}}
            /\ Cardinality(InvalidValues) =
                  Cardinality({i \in Parameters : ~Bare(i) \/ ~Known(i)})

\* what warning_filter does with the parameters: every parameter, bare or
\* not, contributes the filters its name stands for
C28_EveryNameContributes ==
    OwnFilter /\ attributes.value = "Parameterized" /\ attributes.inner # <<>> =>
       warning_filter =
          package_config.warning_filter
             \cup UNION {filter_from_str(attributes.inner[i].name, "allow") : i \in Parameters}

\* ------------------------------------------------------------------------
\* Properties of the attributes of a declaration
\* ------------------------------------------------------------------------
\* the attributes given to unique_attributes that carry the name n
Occurrences(n) == {i \in 1..Len(all_attrs) : all_attrs[i].name = n}

FirstOccurrence(n) == CHOOSE i \in Occurrences(n) : \A j \in Occurrences(n) : i <= j

DuplicatesAt(l) ==
    {k \in 1..Len(diags) : diags[k].code = "DuplicateItem" /\ diags[k].loc = l}

\* C29: in the attribute map of a declaration no name occurs twice; the
\* attribute under a name is the first one of that name, and every later
\* one of that name is left out and has one duplicate-item diagnostic,
\* which gives its location and the location of the first
C29_UniqueAttributes ==
    atpc = "done" =>
       /\ \A e1 \in attr_map, e2 \in attr_map : e1.key.sym = e2.key.sym => e1 = e2
       /\ \A e \in attr_map :
             /\ Occurrences(e.key.sym) # {}
             /\ e.attr = all_attrs[FirstOccurrence(e.key.sym)]
             /\ DuplicatesAt(e.attr.loc) = {}
             /\ \A i \in Occurrences(e.key.sym) \ {FirstOccurrence(e.key.sym)} :
                   /\ Cardinality(DuplicatesAt(all_attrs[i].loc)) = 1
                   /\ \A k \in DuplicatesAt(all_attrs[i].loc) : diags[k].loc2 = e.loc

\* C29 witness: a name given twice, as `foo` and then as `foo = v` or
\* `foo(..)`; the map holds the first
C29_Witness ==
    /\ atpc = "done"
    /\ \E e \in attr_map :
          /\ Cardinality(Occurrences(e.key.sym)) = 2
          /\ e.attr.form = "Name"
          /\ \E i \in Occurrences(e.key.sym) : all_attrs[i].form # "Name"

RECURSIVE Translates(_)
\* attribute() returns Some: every value assigned, at any depth, translates
Translates(pa) ==
    /\ pa.form = "Assigned" => pa.ok
    /\ \A i \in 1..Len(pa.inner) : Translates(pa.inner[i])

Occurrence(pa, nested) == [loc |-> pa.loc, name |-> pa.name, nested |-> nested]

RECURSIVE OccurrencesUnder(_, _)
\* every attribute written, at any depth
OccurrencesUnder(pas, nested) ==
    {Occurrence(pas[i], nested) : i \in 1..Len(pas)}
       \cup UNION {OccurrencesUnder(pas[i].inner, TRUE) : i \in 1..Len(pas)}

RECURSIVE ReachedUnder(_)
\* the attributes in parentheses that unique_attributes is given: those of
\* a list all of which translate; the lists inside one are looked at as
\* far as the first attribute that does not translate
ReachedUnder(pas) ==
    (IF \A i \in 1..Len(pas) : Translates(pas[i])
     THEN {Occurrence(pas[i], TRUE) : i \in 1..Len(pas)} ELSE {})
       \cup UNION {ReachedUnder(pas[i].inner) :
                     i \in {j \in 1..Len(pas) : \A k \in 1..(j - 1) : Translates(pas[k])}}

Reached ==
    {Occurrence(pattributes[i], FALSE) :
        i \in {j \in 1..Len(pattributes) : Translates(pattributes[j])}}
       \cup UNION {ReachedUnder(pattributes[i].inner) : i \in 1..Len(pattributes)}

RECURSIVE KeptUnder(_)
\* the attributes of the map, at any depth
KeptUnder(map) == {e.attr : e \in map} \cup UNION {KeptUnder(e.attr.inner) : e \in map}

KeptLocs == {a.loc : a \in KeptUnder(attr_map)}

Misplaced(o) ==
    /\ expected_positions(o.name).known
    /\ o.nested \/ attr_position \notin expected_positions(o.name).positions

InvalidAt(l) ==
    {k \in 1..Len(diags) : diags[k].code = "InvalidAttribute" /\ diags[k].loc = l}

RECURSIVE NodesUnder(_)
NodesUnder(pas) ==
    {pas[i] : i \in 1..Len(pas)} \cup UNION {NodesUnder(pas[i].inner) : i \in 1..Len(pas)}

UnknownNames(pas) ==
    {pas[i].name : i \in {j \in 1..Len(pas) : ~expected_positions(pas[j].name).known}}

\* the unknown names are kept: those of the attributes of the declaration
\* that translate are in its map, and the map of every attribute kept with
\* parentheses has the unknown names written in them and no other
UnknownKept ==
    /\ \A i \in 1..Len(all_attrs) :
          ~expected_positions(all_attrs[i].name).known =>
             \E e \in attr_map : e.key.sym = all_attrs[i].name
    /\ \A a \in KeptUnder(attr_map) :
          a.form = "Parameterized" =>
             \A pa \in NodesUnder(pattributes) :
                pa.loc = a.loc => {e.key.sym : e \in a.inner} = UnknownNames(pa.inner)

\* C30 as stated: every known attribute written in parentheses or with a
\* declaration it is not expected with is left out of the map and has one
\* invalid-attribute diagnostic; an unknown name is kept and has none
C30_MisplacedKnownReported ==
    atpc = "done" =>
       /\ \A o \in OccurrencesUnder(pattributes, FALSE) :
             IF Misplaced(o)
             THEN o.loc \notin KeptLocs /\ Cardinality(InvalidAt(o.loc)) = 1
             ELSE InvalidAt(o.loc) = {}
       /\ UnknownKept

\* C30 amended: such a known attribute is always left out of the map; it
\* has one invalid-attribute diagnostic when the translation reaches it,
\* that is when its value and the values of the attributes listed with it
\* translate, and none otherwise; an unknown name that translates is kept
\* and has none
C30_MisplacedKnownReportedIfReached ==
    atpc = "done" =>
       /\ \A o \in OccurrencesUnder(pattributes, FALSE) :
             IF Misplaced(o)
             THEN /\ o.loc \notin KeptLocs
                  /\ Cardinality(InvalidAt(o.loc)) = (IF o \in Reached THEN 1 ELSE 0)
             ELSE InvalidAt(o.loc) = {}
       /\ UnknownKept

\* C30 witness: `test` with a struct and `test` two levels down in the
\* parentheses of unknown attributes, each with its diagnostic, the unknown
\* attributes around it kept
C30_Witness ==
    /\ atpc = "done"
    /\ attr_position = "Struct"
    /\ \E o \in Reached : Misplaced(o) /\ ~o.nested /\ InvalidAt(o.loc) # {}
    /\ \E o \in Reached : Misplaced(o) /\ o.loc > 100 /\ InvalidAt(o.loc) # {}
    /\ \E a \in KeptUnder(attr_map) : a.loc > 10 /\ a.form = "Parameterized"

\* ------------------------------------------------------------------------
\* The filter set of a module or script
\* ------------------------------------------------------------------------
\* the definition being translated, the filter set pushed for it, and the
\* filters of its own attributes: all_filter_alls for a dependency module
TheDefinition == frames[1]

PushedFilter == warning_filter_scopes[TheDefinition.before.depth + 1]

IsDependencyModule ==
    TheDefinition.translator = "module_"
        /\ (~is_source_definition \/ package_config.is_dependency)

OwnFilters ==
    IF IsDependencyModule THEN all_filter_alls ELSE warning_filter_(attributes).filters

\* C31: the filter set pushed for a module or script, and stored in it, is
\* the union of the filters of its own attributes (of all_filter_alls for a
\* dependency module) and the default filters of its package, so both are
\* within it
C31_EffectiveFilter ==
    frames # <<>> =>
       /\ PushedFilter = OwnFilters \cup package_config.warning_filter
       /\ warning_filter = PushedFilter
       /\ OwnFilters \subseteq PushedFilter
       /\ package_config.warning_filter \subseteq PushedFilter

\* a definition whose pushed set is larger than its own filters and larger
\* than the default filters of its package
C31_Witness ==
    /\ frames # <<>>
    /\ OwnFilters # {}
    /\ package_config.warning_filter # {}
    /\ PushedFilter # OwnFilters
    /\ PushedFilter # package_config.warning_filter
    /\ warning_filter = PushedFilter

\* ------------------------------------------------------------------------
\* The forms that depend on the specification context
\* ------------------------------------------------------------------------
RECURSIVE PNodes(_)
PNodes(pe) == {pe} \cup UNION {PNodes(pe.subs[k]) : k \in 1..Len(pe.subs)}

Under(n) == {m.loc : m \in PNodes(n)} \ {n.loc}

VisitedLocs == {v.loc : v \in translated}

RestrictedAt(loc) ==
    {k \in 1..Len(diags) : diags[k].code = "SpecContextRestricted" /\ diags[k].loc = loc}

\* the forms of specifications only
SpecOnly(n) ==
    \/ n.form \in {"Index", "Lambda", "Quant", "Fun"}
    \/ n.form = "Name" /\ n.subs # <<>>
    \/ n.form = "BinopExp" /\ is_spec_only(n.op)

\* one diagnostic, an unresolved-error node, nothing under the node looked at
RejectedWhole(n) ==
    /\ Cardinality(RestrictedAt(n.loc)) = 1
    /\ Visit(n.loc, "UnresolvedError") \in translated
    /\ Under(n) \cap VisitedLocs = {}

Accepted(n) ==
    /\ RestrictedAt(n.loc) = {}
    /\ Visit(n.loc, n.form) \in translated

\* a method call rejected: its receiver is translated first, then one
\* diagnostic, an unresolved-error node, nothing of its arguments looked at
RejectedAfterReceiver(n) ==
    /\ Cardinality(RestrictedAt(n.loc)) = 1
    /\ Visit(n.loc, "UnresolvedError") \in translated
    /\ n.subs[1].loc \in VisitedLocs
    /\ \A k \in 2..Len(n.subs) :
          ({n.subs[k].loc} \cup Under(n.subs[k])) \cap VisitedLocs = {}

\* C32: outside a specification context every form of specifications only
\* that exp_ or type_ is called on adds one spec-context-restricted
\* diagnostic and becomes an unresolved-error node, and nothing under it is
\* translated; inside one a spec block and a method call are rejected the
\* same way and the forms of specifications only are accepted
C32_RestrictedForms ==
    fpc = "done" =>
       \A n \in PNodes(pexp) :
          n.loc \in VisitedLocs =>
             /\ ~in_spec_context /\ SpecOnly(n) => RejectedWhole(n)
             /\ in_spec_context /\ n.form \in {"Spec", "DotCall"} => RejectedWhole(n)
             /\ in_spec_context /\ SpecOnly(n) => Accepted(n)

\* C32 as the code has it: the same, but a method call inside a
\* specification context has its receiver translated before it is rejected;
\* its arguments are not translated
C32_RestrictedFormsReceiverFirst ==
    fpc = "done" =>
       \A n \in PNodes(pexp) :
          n.loc \in VisitedLocs =>
             /\ ~in_spec_context /\ SpecOnly(n) => RejectedWhole(n)
             /\ in_spec_context /\ n.form = "Spec" => RejectedWhole(n)
             /\ in_spec_context /\ n.form = "DotCall" => RejectedAfterReceiver(n)
             /\ in_spec_context /\ SpecOnly(n) => Accepted(n)

\* a method call inside a specification context whose receiver added its
\* own diagnostic before the call was rejected
C32_Witness ==
    /\ fpc = "done"
    /\ in_spec_context
    /\ pexp.form = "DotCall"
    /\ eexp_ = UnresolvedError(pexp.loc)
    /\ \E k \in 1..Len(diags) :
          /\ diags[k].code = "InvalidNumber"
          /\ diags[k].loc = pexp.subs[1].loc
          /\ \A j \in RestrictedAt(pexp.loc) : k < j
    /\ RestrictedAt(pexp.loc) # {}

\* ------------------------------------------------------------------------
\* Named addresses without a value
\* ------------------------------------------------------------------------
ActiveMapping == (named_address_maps \o pre_compiled_maps)[named_address_mapping]

WithoutValue == {k \in 1..Len(diags) : diags[k].code = "AddressWithoutValue"}

ReservedNames == {k \in 1..Len(diags) : diags[k].code = "ReservedName"}

\* C33: a named address without a value in the active map resolves to the
\* named-but-unassigned address and adds one address-without-value
\* diagnostic, none if the name was rejected as restricted; a named
\* address with a value resolves to the numeric address carrying the name
\* and its value; an anonymous address adds no diagnostic
C33_AddressWithoutValue ==
    apc = "resolved" =>
       /\ address.kind \in {"Numerical", "NamedUnassigned"}
       /\ address.kind = "NamedUnassigned" =>
             /\ address.name \notin DOMAIN ActiveMapping
             /\ Cardinality(WithoutValue) = IF address.name = SELF_NAME THEN 0 ELSE 1
             /\ address.name = SELF_NAME => Cardinality(ReservedNames) = 1
             /\ \A k \in WithoutValue : diags[k].name = address.name
       /\ address.kind = "Numerical" /\ address.name # NoName =>
             /\ address.name \in DOMAIN ActiveMapping
             /\ address.value = ActiveMapping[address.name]
             /\ WithoutValue = {}
       /\ address.kind = "Numerical" /\ address.name = NoName => diags = <<>>

\* a name without a value resolved with its one diagnostic, the map in
\* use giving a value to another name
C33_Witness ==
    /\ apc = "resolved"
    /\ address.kind = "NamedUnassigned"
    /\ address.name = "a"
    /\ "b" \in DOMAIN ActiveMapping
    /\ Cardinality(WithoutValue) = 1

\* C34: for every list of source scripts, names ending in an underscore and
\* digits included, program ends without the duplicate script key
\* assertion firing, the keys of the script map are pairwise distinct and
\* the map holds one entry per source script
C34_DistinctScriptKeys ==
    ppc \in {"done", "panic"} =>
        /\ ppc # "panic"
        /\ \A e, f \in keyed : e.key = f.key => e = f
        /\ Cardinality({e.key : e \in keyed}) = Len(SourceScripts)
        /\ \A i \in 1..Len(SourceScripts) :
              \E e \in keyed : e.script.loc = SourceScripts[i].loc

\* ------------------------------------------------------------------------
\* Members dropped from the maps of a definition
\* ------------------------------------------------------------------------
\* C35: whenever a struct, constant or function is dropped because its map
\* holds its name already, an error diagnostic is in the ledger, so the
\* assertion on has_errors() holds, in a module and in a script
C35_DroppedWithErrors ==
    /\ dpc # "panic"
    /\ \A i \in 1..Len(dropped) : dropped[i].errors

\* what holds of a module: each member dropped was reported as a duplicate
\* or as an invalid name by aliases_from_member
C35_ModuleDroppedWithErrors ==
    dkind = "module_" =>
       /\ dpc # "panic"
       /\ \A i \in 1..Len(dropped) :
             \E k \in 1..Len(diags) :
                /\ diags[k].code \in {"DuplicateItem", "InvalidName"}
                /\ diags[k].name = dropped[i].member.name
                /\ diags[k].loc > 200

\* ------------------------------------------------------------------------
\* Interface files under concurrent compilations
\* ------------------------------------------------------------------------
WholeInterfaces(k) == {write_file_to_string(n, k) : n \in NamedAddressTables}

\* a step that brings a file into existence or changes it is the rename of
\* a temporary that holds the whole interface
InstalledByRename ==
    \A k \in 1..2 :
       disk'[k] # disk[k] =>
          \E w \in Workers :
             /\ worker[w].at = "rename"
             /\ FileOf(w) = k
             /\ tmp[w] \in WholeInterfaces(k)
             /\ disk'[k] = tmp[w]

\* C36: in every interleaving of the compilations the file at a target
\* path is absent or holds a whole interface, it comes into existence or
\* changes only by the rename of a wholly written temporary, and once all
\* compilations have returned every target exists with its whole interface
C36_AtomicInstall ==
    /\ [](\A k \in 1..2 : disk[k] # Absent => disk[k] \in WholeInterfaces(k))
    /\ []((\A w \in Workers : worker[w].at = "done") =>
             \A k \in Range(mv_files) : disk[k] \in WholeInterfaces(k))
    /\ [][InstalledByRename]_vars

\* all compilations have returned, one of them having installed the file
\* while another held a temporary that was not yet whole and dropped it
\* later
C36_Witness ==
    /\ \A w \in Workers : worker[w].at = "done"
    /\ renames[1] # <<>>
    /\ discarded[1] # {}
    /\ disk[1] \in WholeInterfaces(1)

\* ------------------------------------------------------------------------
\* Termination of a run
\* ------------------------------------------------------------------------
\* a run on a well-formed handle at stage P to a target within P..7
RunInRange ==
    /\ pc # "handle"
    /\ ValidStart
    /\ start.P <= until
    /\ until <= PASS_COMPILATION

\* C37: a run from a handle at stage P to a target T, 1 <= P <= T <= 7,
\* ends with a handle at T or with a diagnostics failure after at most
\* T - P stage transitions, each stage entered at most once and in order
C37_RunTerminates ==
    /\ [](RunInRange =>
             /\ pc \in {"run", "ok", "err", "units"}
             /\ Len(executed) <= until - start.P
             /\ \A i, j \in 1..Len(executed) : i < j => executed[i] < executed[j]
             /\ pc = "ok" => hP = until /\ equivalent_pass(program) = until
             /\ pc = "err" => failure # <<>>)
    /\ (RunInRange /\ pc = "run") ~> (pc \in {"ok", "err"})

\* a run from the middle of the pipeline that ended at its target after
\* exactly T - P transitions
C37_Witness ==
    /\ RunInRange
    /\ pc = "ok"
    /\ start.P = PASS_NAMING
    /\ until = PASS_CFGIR
    /\ Len(executed) = until - start.P

\* ------------------------------------------------------------------------
\* Stopping and resuming
\* ------------------------------------------------------------------------
IsPrefix(s, t) == Len(s) <= Len(t) /\ s = SubSeq(t, 1, Len(s))

\* a step of into_ast or at_<S> that did not panic
MovesAst == ast' # ast /\ pc' # "panic"

\* into_ast and at_<S> move the AST between the handle and the caller and
\* leave the compilation environment and the record of the passes alone
MovesOnlyAst ==
    MovesAst =>
        /\ diags' = diags
        /\ UNCHANGED filterVars
        /\ UNCHANGED <<executed, gates, takes, emitted, failure, warnings>>
        /\ ast = NoProgram =>
              /\ ast' = program
              /\ program' = NoProgram
              /\ hP' = EMPTY_COMPILER
        /\ ast # NoProgram =>
              /\ ast' = NoProgram
              /\ program' = ast
              /\ hP' = equivalent_pass(ast)
              /\ hP' = extracted.P

\* the handle at_<S> returned, before it is run
Resumed == pc = "handle" /\ ast = NoProgram /\ extracted # NotExtracted

\* C38: into_ast followed by at_<S> gives back the handle at stage S with
\* the same AST and the same compilation environment, so a compilation that
\* is stopped and resumed executes every pass once, in order, each gate
\* seeing every diagnostic emitted so far, and returns the final warnings
\* of the whole compilation; move_check_for_errors builds the test plan
\* only on the CFGIR AST, before bytecode generation, and only in test mode
C38_ResumeTransparent ==
    /\ [][MovesOnlyAst]_vars
    /\ [](Resumed =>
             /\ hP = extracted.P
             /\ program = extracted.program
             /\ plans = <<>> => diags = extracted.diags
             /\ IsPrefix(extracted.diags, diags))
    /\ [](ValidStart =>
             /\ \A i \in 1..Len(executed) : executed[i] = start.P + i
             /\ \A i \in 1..Len(gates) :
                    /\ gates[i].arm = start.P + i - 1
                    /\ IsPrefix(gates[i].ledger, emitted)
             /\ pc = "ok" => Len(executed) = hP - start.P
             /\ pc = "units" =>
                    /\ Len(executed) = PASS_COMPILATION - start.P
                    /\ start.P <= PASS_CFGIR =>
                          warnings = take_final_warning_diags(emitted).taken)
    /\ [](/\ Len(plans) <= 1
          /\ plans # <<>> =>
                /\ caller = "move_check_for_errors"
                /\ testing
                /\ plans[1].ast = PASS_CFGIR
                /\ plans[1].executed # <<>>
                /\ plans[1].executed[Len(plans[1].executed)] = PASS_CFGIR
          /\ (caller = "move_check_for_errors"
                /\ \E i \in 1..Len(executed) : executed[i] = PASS_COMPILATION) =>
                (testing <=> plans # <<>>))

\* move_check_for_errors in test mode has built the units with warnings,
\* through a CFGIR handle whose ledger was not empty when it was stopped
C38_Witness ==
    /\ caller = "move_check_for_errors"
    /\ testing
    /\ pc = "units"
    /\ plans # <<>>
    /\ extracted.P = PASS_CFGIR
    /\ extracted.diags # <<>>
    /\ warnings # <<>>

\* ------------------------------------------------------------------------
\* Functions of dependency modules
\* ------------------------------------------------------------------------
\* function_ is translating a function of a dependency module
InDependencyFunction ==
    /\ wpc = "walk"
    /\ frames # <<>>
    /\ Top.translator = "function_"
    /\ ~is_source_definition

\* the only step out of the function_ of a dependency function is its
\* end, with the ledger and the alias bindings as function_ found them
LeavesUntranslated ==
    InDependencyFunction =>
        /\ frames' = SubSeq(frames, 1, Len(frames) - 1)
        /\ diags' = diags
        /\ Bindings(aliases') = Top.before.aliases
        /\ entered' = entered

\* C39: a function of a dependency module is translated as a native
\* function: no sequence, block or spec block is entered below its
\* function_, and between the signature and the end of function_ nothing
\* is added to the ledger and no alias changes
C39_DependencyBodyNative ==
    /\ [](\A i \in 1..Len(frames) :
             (frames[i].translator = "function_" /\ ~is_source_definition) =>
                 /\ i = Len(frames)
                 /\ frames[i - 1].translator = "module_")
    /\ [][LeavesUntranslated]_vars

\* a dependency module whose function, declared with a type parameter
\* under a use declaration, is being translated
C39_Witness ==
    /\ InDependencyFunction
    /\ Len(frames) = 2
    /\ frames[2].before.aliases.members # {}
    /\ Bindings(aliases) # frames[2].before.aliases

\* ------------------------------------------------------------------------
\* The spec-context flag
\* ------------------------------------------------------------------------
SpecFrames == {i \in 1..Len(frames) : frames[i].translator = "spec"}

\* a translator is entered
Enters(t) == Len(frames') = Len(frames) + 1 /\ frames'[Len(frames')].translator = t

\* a translator ends
Ends(t) == frames # <<>> /\ Len(frames') = Len(frames) - 1 /\ Top.translator = t

\* the flag around the translators: spec is entered with the flag false
\* and sets it, ends with it true and resets it; module_, script_,
\* struct_def_, constant_ and function_ begin and end with it false
FlagAround ==
    /\ Enters("spec") => ~in_spec_context /\ in_spec_context'
    /\ Ends("spec") => in_spec_context /\ ~in_spec_context'
    /\ \A t \in {"module_", "script_", "struct_def_", "constant_", "function_"} :
          (Enters(t) \/ Ends(t)) => ~in_spec_context /\ ~in_spec_context'
    /\ \A t \in {"sequence", "spec_member"} :
          (Enters(t) \/ Ends(t)) => in_spec_context' = in_spec_context

\* C40: in_spec_context is true exactly while a spec block is translating
\* what it holds; a spec block is never entered inside another, so the
\* reset at its end restores the value at its entry, and the flag is false
\* when a module, script, function, constant or struct begins or ends
C40_SpecContextFlag ==
    /\ [](wpc = "walk" => (in_spec_context <=> SpecFrames # {}))
    /\ [](Cardinality(SpecFrames) <= 1)
    /\ [][FlagAround]_vars

\* a spec block of an expression in a function body is translating one of
\* its members
C40_Witness ==
    /\ wpc = "walk"
    /\ Len(frames) = 5
    /\ frames[2].translator = "function_"
    /\ frames[3].translator = "sequence"
    /\ frames[4].translator = "spec"
    /\ frames[5].translator = "spec_member"
    /\ in_spec_context
====
